---- MODULE Spec2Model ----
(***************************************************************************)
(* logpulse: the entry store (App::add_log / prepend_logs / clear_logs),   *)
(* the modal key handler (event::handle_events) and the scheduler loop of  *)
(* main::run_tui, as one state machine.                                    *)
(*                                                                         *)
(* A line is a record [id, txt]: txt is the line's text as a sequence of   *)
(* words, id is the line's position in its stream and stands for the rest  *)
(* of its content, so that two lines are never the same string.            *)
(* Lines of the live stream have ids 1, 2, ...; lines of the file history  *)
(* (older than the stream) have ids below 1.                               *)
(***************************************************************************)
EXTENDS Integers, Sequences, FiniteSets, TLC

VARIABLES
    app,              \* the App struct
    chan,             \* the ingest channel: lines sent and not yet received
    nextId,           \* the id of the next line a producer sends
    seen_structured,  \* history: some entry of a level other than Unknown was passed to add_log
    detected_parser,  \* the name of the parser run_tui works with
    frame,            \* the window of the feed that draw_log_feed computed, where it is followed
    producer,         \* the Docker producer task, its child processes and their reader tasks, where they are followed
    since_jump,       \* history: "none" until a jump_to_time finds its entry, then
                      \* "keyed" while the running iteration handled a key, else "idle"
    pc                \* where run_tui is: "start", "poll", "history", "ingest", "tick", "done",
                      \* and "returned" once it has returned and dropped the receiver

vars == <<app, chan, nextId, seen_structured, detected_parser, since_jump, frame, producer, pc>>

(***************************************************************************)
(* Sizes.  The program's capacities are scaled down so that eviction, the  *)
(* drain cap and the history chunk are all reached.  As in the program,    *)
(* a history chunk is smaller than the store and a drain batch fits in it. *)
(***************************************************************************)
MAX_LOG_LINES == 2
HISTORY_CHUNK == 1
DRAIN_BATCH == 2
PAGE_SIZE == 2
HSCROLL_STEP == 20
PALETTE_SIZE == 4
EPS_WINDOW_SECS == 2
SECOND == 2
MaxClock == 8
MaxLines == 3
MaxText == 1
MaxHighlights == 1
MaxHScroll == 20
SAMPLE_SIZE == 2

(***************************************************************************)
(* Option values: None is the empty sequence, Some(v) a one-element one.   *)
(***************************************************************************)
None == <<>>

Some(v) == <<v>>

IsSome(o) == Len(o) > 0

Unwrap(o) == o[1]

Min2(a, b) == IF a <= b THEN a ELSE b

Last(s) == s[Len(s)]

Front(s) == SubSeq(s, 1, Len(s) - 1)

SatSub(a, b) == IF a >= b THEN a - b ELSE 0

(***************************************************************************)
(* Text.  str.contains and Regex::is_match are both "the pattern occurs as *)
(* a contiguous run of the text" on the words the model uses.              *)
(***************************************************************************)
Contains(txt, pat) ==
    \E i \in 1..(Len(txt) + 1) :
        /\ i + Len(pat) - 1 <= Len(txt)
        /\ \A j \in 1..Len(pat) : txt[i + j - 1] = pat[j]

\* Regex::new(..).or_else(|_| Regex::new(escape(..))).ok(); Regex::new fails
\* on an unbalanced parenthesis.
CompilePattern(text) ==
    IF \A i \in 1..Len(text) : text[i] # "("
    THEN Some([pat |-> text, escaped |-> FALSE])
    ELSE Some([pat |-> text, escaped |-> TRUE])

is_match(re, line) == Contains(line.txt, re.pat)

(***************************************************************************)
(* parser.rs: the level classifier and the fallback (plain) parser.        *)
(***************************************************************************)
HasWord(txt, ws) == \E i \in 1..Len(txt) : txt[i] \in ws

detect_level(txt) ==
    IF HasWord(txt, {"FATAL", "EMERGENCY", "CRITICAL"}) THEN "Fatal"
    ELSE IF HasWord(txt, {"ERROR", "ERR"}) THEN "Error"
    ELSE IF HasWord(txt, {"WARN", "WARNING"}) THEN "Warn"
    ELSE IF HasWord(txt, {"INFO"}) THEN "Info"
    ELSE IF HasWord(txt, {"DEBUG", "DBG"}) THEN "Debug"
    ELSE IF HasWord(txt, {"TRACE"}) THEN "Trace"
    ELSE "Unknown"

fallback_parse(line) ==
    [raw |-> line, level |-> detect_level(line.txt), timestamp |-> None,
     extra_lines |-> <<>>]

\* The texts a producer may send: a plain line, an INFO line, an ERROR line.
LineTexts == {<<"x">>, <<"INFO", "y">>, <<"ERROR", "x">>}

(***************************************************************************)
(* parser.rs: the five structured parsers and auto-detection.  The part of *)
(* a line that a parser's pattern captures as one group is one word: "{"   *)
(* and "}" are the braces of a JSON object, "1" and "2" Laravel date-times,*)
(* "D" a Django date-time, "T" a slog time= field, "G" a Go date-time and  *)
(* "N" the bracketed time of an access log, whose status code is three     *)
(* digit words.                                                            *)
(***************************************************************************)
Digits == {"0", "1", "2", "3", "4", "5", "6", "7", "8", "9"}

\* str::parse::<u16> of one digit
digit_value(w) ==
    CASE w = "0" -> 0 [] w = "1" -> 1 [] w = "2" -> 2 [] w = "3" -> 3
      [] w = "4" -> 4 [] w = "5" -> 5 [] w = "6" -> 6 [] w = "7" -> 7
      [] w = "8" -> 8 [] w = "9" -> 9

json_can_parse(txt) == Len(txt) >= 2 /\ txt[1] = "{" /\ txt[Len(txt)] = "}"

\* "level": "...", "severity": "..." or "lvl": "..." if the object has one,
\* else the whole line
json_parse(line) ==
    LET txt == line.txt
        keys == {i \in 1..(Len(txt) - 1) : txt[i] \in {"level", "severity", "lvl"}}
        first == CHOOSE i \in keys : \A j \in keys : i <= j
    IN  [raw |-> line,
         level |-> IF keys # {} THEN detect_level(<<txt[first + 1]>>)
                   ELSE detect_level(txt),
         timestamp |-> None, extra_lines |-> <<>>]

\* [date-time] env.LEVEL: message
laravel_can_parse(txt) == Len(txt) >= 3 /\ txt[1] \in {"1", "2"}

laravel_parse(line) ==
    IF laravel_can_parse(line.txt)
    THEN [raw |-> line, level |-> detect_level(<<line.txt[2]>>),
          timestamp |-> Some(<<line.txt[1]>>), extra_lines |-> <<>>]
    ELSE fallback_parse(line)

\* [date-time] LEVEL [logger] message
django_can_parse(txt) == Len(txt) >= 4 /\ txt[1] = "D"

django_parse(line) ==
    IF django_can_parse(line.txt)
    THEN [raw |-> line, level |-> detect_level(<<line.txt[2]>>),
          timestamp |-> Some(<<line.txt[1]>>), extra_lines |-> <<>>]
    ELSE fallback_parse(line)

\* time=... level=LEVEL msg=...
go_slog_can_parse(txt) == Len(txt) >= 3 /\ txt[1] = "T"

\* date-time rest
go_std_can_parse(txt) == Len(txt) >= 2 /\ txt[1] = "G"

go_can_parse(txt) == go_slog_can_parse(txt) \/ go_std_can_parse(txt)

go_parse(line) ==
    IF go_slog_can_parse(line.txt)
    THEN [raw |-> line, level |-> detect_level(<<line.txt[2]>>),
          timestamp |-> Some(<<line.txt[1]>>), extra_lines |-> <<>>]
    ELSE IF go_std_can_parse(line.txt)
    THEN [raw |-> line, level |-> detect_level(Tail(line.txt)),
          timestamp |-> Some(<<line.txt[1]>>), extra_lines |-> <<>>]
    ELSE fallback_parse(line)

\* host - - [time] "request" status size
nginx_can_parse(txt) ==
    /\ Len(txt) >= 9
    /\ txt[4] = "N"
    /\ \A i \in 6..9 : txt[i] \in Digits

status_level_from_201(status) ==
    IF status >= 201 /\ status <= 299 THEN "Info"
    ELSE IF status >= 300 /\ status <= 399 THEN "Debug"
    ELSE IF status >= 400 /\ status <= 499 THEN "Warn"
    ELSE IF status >= 500 /\ status <= 599 THEN "Error"
    ELSE "Unknown"

\* 200..=299 Info, 300..=399 Debug, 400..=499 Warn, 500..=599 Error, _ Unknown
status_level(status) ==
    IF status >= 200 /\ status <= 299 THEN "Info"
    ELSE IF status >= 300 /\ status <= 399 THEN "Debug"
    ELSE IF status >= 400 /\ status <= 499 THEN "Warn"
    ELSE IF status >= 500 /\ status <= 599 THEN "Error"
    ELSE "Unknown"

nginx_parse(line) ==
    IF nginx_can_parse(line.txt)
    THEN LET status == 100 * digit_value(line.txt[6]) + 10 * digit_value(line.txt[7])
                          + digit_value(line.txt[8])
         IN  [raw |-> line, level |-> status_level(status),
              timestamp |-> Some(<<line.txt[4]>>), extra_lines |-> <<>>]
    ELSE fallback_parse(line)

\* The probe order of detect_parser.
Parsers == <<"JSON", "Laravel", "Django", "Go", "Nginx/Apache">>

can_parse(name, txt) ==
    CASE name = "JSON" -> json_can_parse(txt)
      [] name = "Laravel" -> laravel_can_parse(txt)
      [] name = "Django" -> django_can_parse(txt)
      [] name = "Go" -> go_can_parse(txt)
      [] name = "Nginx/Apache" -> nginx_can_parse(txt)
      [] OTHER -> TRUE

parse(name, line) ==
    CASE name = "JSON" -> json_parse(line)
      [] name = "Laravel" -> laravel_parse(line)
      [] name = "Django" -> django_parse(line)
      [] name = "Go" -> go_parse(line)
      [] name = "Nginx/Apache" -> nginx_parse(line)
      [] OTHER -> fallback_parse(line)

\* sample_lines.iter().filter(|l| parser.can_parse(l)).count()
score(name, samples) ==
    Cardinality({i \in 1..Len(samples) : can_parse(name, samples[i].txt)})

RECURSIVE detect_from_last_tie(_, _, _, _)
detect_from_last_tie(i, best, best_score, samples) ==
    IF i > Len(Parsers) THEN IF best_score > 0 THEN best ELSE "Plain"
    ELSE IF score(Parsers[i], samples) >= best_score
         THEN detect_from_last_tie(i + 1, Parsers[i], score(Parsers[i], samples), samples)
         ELSE detect_from_last_tie(i + 1, best, best_score, samples)

RECURSIVE detect_from(_, _, _, _)
\* The loop of detect_parser from the i-th parser on.
detect_from(i, best, best_score, samples) ==
    IF i > Len(Parsers) THEN IF best_score > 0 THEN best ELSE "Plain"
    ELSE IF score(Parsers[i], samples) > best_score
         THEN detect_from(i + 1, Parsers[i], score(Parsers[i], samples), samples)
         ELSE detect_from(i + 1, best, best_score, samples)

detect_parser(samples) == detect_from(1, "Plain", 0, samples)

\* initial_lines.iter().take(SAMPLE_SIZE)
sample_of(lines) == SubSeq(lines, 1, Min2(Len(lines), SAMPLE_SIZE))

(***************************************************************************)
(* source::FileHistory, the lazy history handle.                           *)
(***************************************************************************)
\* The older lines of the file, oldest first.
HistoryFile == <<[id |-> -1, txt |-> <<"x">>], [id |-> 0, txt |-> <<"ERROR", "x">>]>>

has_more(h) == Len(h) > 0

\* The chunk load_older(n) returns: the newest n remaining lines, in file order.
load_older_lines(h, n) == SubSeq(h, Len(h) - Min2(n, Len(h)) + 1, Len(h))

load_older_rest(h, n) == SubSeq(h, 1, Len(h) - Min2(n, Len(h)))

(***************************************************************************)
(* app.rs                                                                  *)
(***************************************************************************)
AppNew ==
    [logs |-> <<>>, scroll_offset |-> 0, selected_index |-> 0,
     frozen |-> FALSE, error_only |-> FALSE,
     input_mode |-> "Normal", view_mode |-> "Feed",
     filter_text |-> <<>>, filter_regex |-> None,
     error_count |-> 0, total_count |-> 0,
     eps_history |-> [i \in 1..EPS_WINDOW_SECS |-> 0],
     current_eps |-> 0, eps_counter |-> 0, eps_last_tick |-> 0,
     should_quit |-> FALSE, history |-> None, needs_history_load |-> FALSE,
     horizontal_scroll |-> 0, has_structured_logs |-> FALSE,
     search_text |-> <<>>, search_regex |-> None,
     highlights |-> <<>>, input_buffer |-> <<>>, status_message |-> None]

\* add_log that never groups a continuation line.
add_log_no_grouping(a, entry) ==
    LET a1 == IF entry.level # "Unknown"
              THEN [a EXCEPT !.has_structured_logs = TRUE] ELSE a
        a2 == [a1 EXCEPT
                 !.error_count = IF entry.level \in {"Error", "Fatal"}
                                 THEN @ + 1 ELSE @,
                 !.total_count = @ + 1,
                 !.eps_counter = @ + 1]
        a3 == IF Len(a2.logs) >= MAX_LOG_LINES
              THEN [a2 EXCEPT !.logs = Tail(@), !.scroll_offset = SatSub(@, 1)]
              ELSE a2
    IN  [a3 EXCEPT !.logs = Append(@, entry)]

\* add_log that groups without looking at has_structured_logs.
add_log_group_unflagged(a, entry) ==
    LET a1 == IF entry.level # "Unknown"
              THEN [a EXCEPT !.has_structured_logs = TRUE] ELSE a
    IN  IF /\ entry.level = "Unknown"
           /\ Len(a1.logs) > 0
           /\ Last(a1.logs).level # "Unknown"
        THEN [a1 EXCEPT !.logs[Len(a1.logs)].extra_lines = Append(@, entry.raw)]
        ELSE add_log_no_grouping(a, entry)

\* add_log that groups without looking at the level of the tail entry.
add_log_group_any_tail(a, entry) ==
    LET a1 == IF entry.level # "Unknown"
              THEN [a EXCEPT !.has_structured_logs = TRUE] ELSE a
    IN  IF /\ a1.has_structured_logs
           /\ entry.level = "Unknown"
           /\ Len(a1.logs) > 0
        THEN [a1 EXCEPT !.logs[Len(a1.logs)].extra_lines = Append(@, entry.raw)]
        ELSE add_log_no_grouping(a, entry)

\* add_log that evicts the newest entry (pop_back) instead of the oldest.
add_log_evict_newest(a, entry) ==
    LET a1 == IF entry.level # "Unknown"
              THEN [a EXCEPT !.has_structured_logs = TRUE] ELSE a
    IN  IF /\ a1.has_structured_logs
           /\ entry.level = "Unknown"
           /\ Len(a1.logs) > 0
           /\ Last(a1.logs).level # "Unknown"
        THEN [a1 EXCEPT !.logs[Len(a1.logs)].extra_lines = Append(@, entry.raw)]
        ELSE LET a2 == [a1 EXCEPT
                          !.error_count = IF entry.level \in {"Error", "Fatal"}
                                          THEN @ + 1 ELSE @,
                          !.total_count = @ + 1,
                          !.eps_counter = @ + 1]
                 a3 == IF Len(a2.logs) >= MAX_LOG_LINES
                       THEN [a2 EXCEPT !.logs = Front(@)]
                       ELSE a2
             IN  [a3 EXCEPT !.logs = Append(@, entry)]

\* add_log that counts a continuation line as an entry in the meters.
add_log_group_counted(a, entry) ==
    LET a1 == IF entry.level # "Unknown"
              THEN [a EXCEPT !.has_structured_logs = TRUE] ELSE a
        a2 == [a1 EXCEPT
                 !.error_count = IF entry.level \in {"Error", "Fatal"}
                                 THEN @ + 1 ELSE @,
                 !.total_count = @ + 1,
                 !.eps_counter = @ + 1]
    IN  IF /\ a1.has_structured_logs
           /\ entry.level = "Unknown"
           /\ Len(a1.logs) > 0
           /\ Last(a1.logs).level # "Unknown"
        THEN [a2 EXCEPT !.logs[Len(a1.logs)].extra_lines = Append(@, entry.raw)]
        ELSE LET a3 == IF Len(a2.logs) >= MAX_LOG_LINES
                       THEN [a2 EXCEPT !.logs = Tail(@),
                                       !.scroll_offset = SatSub(@, 1)]
                       ELSE a2
             IN  [a3 EXCEPT !.logs = Append(@, entry)]

add_log(a, entry) ==
    LET a1 == IF entry.level # "Unknown"
              THEN [a EXCEPT !.has_structured_logs = TRUE] ELSE a
    IN  IF /\ a1.has_structured_logs
           /\ entry.level = "Unknown"
           /\ Len(a1.logs) > 0
           /\ Last(a1.logs).level # "Unknown"
        THEN [a1 EXCEPT !.logs[Len(a1.logs)].extra_lines = Append(@, entry.raw)]
        ELSE LET a2 == [a1 EXCEPT
                          !.error_count = IF entry.level \in {"Error", "Fatal"}
                                          THEN @ + 1 ELSE @,
                          !.total_count = @ + 1,
                          !.eps_counter = @ + 1]
                 a3 == IF Len(a2.logs) >= MAX_LOG_LINES
                       THEN [a2 EXCEPT !.logs = Tail(@),
                                       !.scroll_offset = SatSub(@, 1)]
                       ELSE a2
             IN  [a3 EXCEPT !.logs = Append(@, entry)]

update_filter_regex(a) ==
    [a EXCEPT !.filter_regex = IF a.filter_text = <<>> THEN None
                               ELSE CompilePattern(a.filter_text)]

matches_filter(a, entry) ==
    /\ a.error_only => entry.level \in {"Error", "Fatal"}
    /\ IsSome(a.filter_regex) =>
          \/ is_match(Unwrap(a.filter_regex), entry.raw)
          \/ \E i \in 1..Len(entry.extra_lines) :
                is_match(Unwrap(a.filter_regex), entry.extra_lines[i])

visible_logs(a) ==
    LET keep(e) == matches_filter(a, e) IN SelectSeq(a.logs, keep)

visible_count(a) == Len(visible_logs(a))

\* clamp_selection that leaves the cursor where it is.
clamp_selection_off(a) == a

clamp_selection(a) ==
    LET count == visible_count(a)
    IN  IF count = 0 THEN [a EXCEPT !.selected_index = 0]
        ELSE IF a.selected_index >= count
             THEN [a EXCEPT !.selected_index = count - 1]
             ELSE a

\* clear_logs that also resets the session counters.
clear_logs_reset_counters(a) ==
    [a EXCEPT !.logs = <<>>, !.scroll_offset = 0, !.selected_index = 0,
              !.total_count = 0, !.error_count = 0]

\* clear_logs that also forgets that structured entries were seen.
clear_logs_reset_flag(a) ==
    [a EXCEPT !.logs = <<>>, !.scroll_offset = 0, !.selected_index = 0,
              !.has_structured_logs = FALSE]

\* clear_logs that leaves the cursor where it was.
clear_logs_keep_cursor(a) == [a EXCEPT !.logs = <<>>, !.scroll_offset = 0]

clear_logs(a) ==
    [a EXCEPT !.logs = <<>>, !.scroll_offset = 0, !.selected_index = 0]

history_has_more(a) == IsSome(a.history) /\ has_more(Unwrap(a.history))

scroll_down(a) ==
    LET count == visible_count(a)
    IN  IF count > 0 /\ a.selected_index < count - 1
        THEN [a EXCEPT !.selected_index = @ + 1] ELSE a

scroll_up(a) ==
    IF a.selected_index > 0 THEN [a EXCEPT !.selected_index = @ - 1]
    ELSE IF history_has_more(a) THEN [a EXCEPT !.needs_history_load = TRUE]
    ELSE a

page_down(a, page_size) ==
    LET count == visible_count(a)
    IN  IF count > 0
        THEN [a EXCEPT !.selected_index = Min2(@ + page_size, count - 1)]
        ELSE a

page_up(a, page_size) ==
    LET a1 == [a EXCEPT !.selected_index = SatSub(@, page_size)]
    IN  IF a1.selected_index = 0 /\ history_has_more(a1)
        THEN [a1 EXCEPT !.needs_history_load = TRUE] ELSE a1

jump_to_start(a) ==
    LET a1 == [a EXCEPT !.selected_index = 0]
    IN  IF history_has_more(a1)
        THEN [a1 EXCEPT !.needs_history_load = TRUE] ELSE a1

jump_to_end(a) ==
    LET count == visible_count(a)
    IN  IF count > 0 THEN [a EXCEPT !.selected_index = count - 1] ELSE a

scroll_right(a) == [a EXCEPT !.horizontal_scroll = @ + HSCROLL_STEP]

scroll_left(a) == [a EXCEPT !.horizontal_scroll = SatSub(@, HSCROLL_STEP)]

RECURSIVE PushFrontForward(_, _)
\* The loop of prepend_logs without the rev(): the batch ends up reversed.
PushFrontForward(logs, entries) ==
    IF entries = <<>> THEN logs
    ELSE LET pushed == <<Head(entries)>> \o logs
             kept == IF Len(pushed) > MAX_LOG_LINES THEN Front(pushed) ELSE pushed
         IN  PushFrontForward(kept, Tail(entries))

RECURSIVE PushFrontAll(_, _)
\* for entry in entries.into_iter().rev() { push_front; if len > MAX { pop_back } }
PushFrontAll(logs, entries) ==
    IF entries = <<>> THEN logs
    ELSE LET pushed == <<Last(entries)>> \o logs
             kept == IF Len(pushed) > MAX_LOG_LINES THEN Front(pushed) ELSE pushed
         IN  PushFrontAll(kept, Front(entries))

\* prepend_logs without the pop_back.
prepend_logs_no_evict(a, entries) ==
    IF Len(entries) = 0 THEN a
    ELSE [a EXCEPT !.logs = entries \o @, !.selected_index = Len(entries)]

\* prepend_logs that counts what it prepends, as add_log counts what it
\* appends.
prepend_logs_counted(a, entries) ==
    LET count == Len(entries)
        errors == Cardinality({i \in 1..count : entries[i].level = "Error"})
    IN  IF count = 0 THEN a
        ELSE [a EXCEPT !.logs = PushFrontAll(@, entries),
                       !.selected_index = count,
                       !.total_count = @ + count,
                       !.error_count = @ + errors]

prepend_logs(a, entries) ==
    LET count == Len(entries)
    IN  IF count = 0 THEN a
        ELSE [a EXCEPT !.logs = PushFrontAll(@, entries),
                       !.selected_index = count]

update_search_regex(a) ==
    [a EXCEPT !.search_regex = IF a.search_text = <<>> THEN None
                               ELSE CompilePattern(a.search_text)]

entry_matches(re, entry) ==
    \/ is_match(re, entry.raw)
    \/ \E i \in 1..Len(entry.extra_lines) : is_match(re, entry.extra_lines[i])

\* search_next that stops at the end of the visible list.
search_next_no_wrap(a) ==
    IF ~IsSome(a.search_regex) THEN a
    ELSE LET visible == visible_logs(a)
             n == Len(visible)
             start == a.selected_index + 1
             hits == {i \in start..(n - 1) :
                        entry_matches(Unwrap(a.search_regex), visible[i + 1])}
         IN  IF n = 0 \/ hits = {} THEN a
             ELSE LET i0 == CHOOSE i \in hits : \A j \in hits : i <= j
                  IN  [a EXCEPT !.selected_index = i0]

search_next(a) ==
    IF ~IsSome(a.search_regex) THEN a
    ELSE LET visible == visible_logs(a)
             n == Len(visible)
             start == a.selected_index + 1
             hits == {i \in 0..(n - 1) :
                        entry_matches(Unwrap(a.search_regex),
                                      visible[((start + i) % n) + 1])}
         IN  IF n = 0 \/ hits = {} THEN a
             ELSE LET i0 == CHOOSE i \in hits : \A j \in hits : i <= j
                  IN  [a EXCEPT !.selected_index = (start + i0) % n]

search_prev(a) ==
    IF ~IsSome(a.search_regex) THEN a
    ELSE LET visible == visible_logs(a)
             n == Len(visible)
             start == IF a.selected_index = 0 THEN n - 1
                      ELSE a.selected_index - 1
             hits == {i \in 0..(n - 1) :
                        entry_matches(Unwrap(a.search_regex),
                                      visible[((start + n - i) % n) + 1])}
         IN  IF n = 0 \/ hits = {} THEN a
             ELSE LET i0 == CHOOSE i \in hits : \A j \in hits : i <= j
                  IN  [a EXCEPT !.selected_index = (start + n - i0) % n]

add_highlight(a, pattern) ==
    IF pattern = <<>> THEN [a EXCEPT !.highlights = <<>>]
    ELSE [a EXCEPT !.highlights =
            Append(@, [re |-> Unwrap(CompilePattern(pattern)),
                       color |-> Len(a.highlights) % PALETTE_SIZE])]

\* time_hits that tries the raw line only when the entry has no timestamp.
time_hits_stamp_only(a, time_str) ==
    LET visible == visible_logs(a)
        hit(e) == IF IsSome(e.timestamp)
                  THEN Contains(Unwrap(e.timestamp), time_str)
                  ELSE Contains(e.raw.txt, time_str)
    IN  {i \in 1..Len(visible) : hit(visible[i])}

\* The positions in the visible list that jump_to_time stops at.
time_hits(a, time_str) ==
    LET visible == visible_logs(a)
        hit(e) == \/ IsSome(e.timestamp) /\ Contains(Unwrap(e.timestamp), time_str)
                  \/ Contains(e.raw.txt, time_str)
    IN  {i \in 1..Len(visible) : hit(visible[i])}

\* jump_to_time that does not pause the stream.
jump_to_time_unpaused(a, time_str) ==
    LET hits == time_hits(a, time_str)
    IN  IF hits = {} THEN a
        ELSE LET i0 == CHOOSE i \in hits : \A j \in hits : i <= j
             IN  [a EXCEPT !.selected_index = i0 - 1]

jump_to_time(a, time_str) ==
    LET hits == time_hits(a, time_str)
    IN  IF hits = {} THEN a
        ELSE LET i0 == CHOOSE i \in hits : \A j \in hits : i <= j
             IN  [a EXCEPT !.selected_index = i0 - 1, !.frozen = TRUE]

set_status(a, msg) == [a EXCEPT !.status_message = Some(msg)]

(***************************************************************************)
(* app.rs: the EPS meter and the status strip.                             *)
(***************************************************************************)
\* tick_eps that pushes the sample without popping the oldest.
tick_eps_keep_oldest(a, now) ==
    IF now - a.eps_last_tick >= SECOND
    THEN [a EXCEPT !.current_eps = a.eps_counter,
                   !.eps_history = Append(@, a.eps_counter),
                   !.eps_counter = 0,
                   !.eps_last_tick = now]
    ELSE a

\* now is Instant::now(), in half seconds since App::new.
tick_eps(a, now) ==
    IF now - a.eps_last_tick >= SECOND
    THEN [a EXCEPT !.current_eps = a.eps_counter,
                   !.eps_history = Append(Tail(@), a.eps_counter),
                   !.eps_counter = 0,
                   !.eps_last_tick = now]
    ELSE a

clear_expired_status(a, expired) ==
    IF IsSome(a.status_message) /\ expired
    THEN [a EXCEPT !.status_message = None] ELSE a

(***************************************************************************)
(* event.rs: handle_events.  A key is a string: a one-character string is  *)
(* KeyCode::Char of that character, "CtrlC" is Ctrl+C, the others are the  *)
(* named keys.  io tells whether the clipboard or the export succeeds.     *)
(***************************************************************************)
CharKeys == {"q", " ", "/", "e", "c", "k", "j", "l", "h", "?", "n", "N", "y",
             "*", "s", "g", "x", "(", "1", "2"}

Keys == CharKeys \cup {"CtrlC", "Esc", "Enter", "Backspace", "Up", "Down", "Left",
                        "Right", "PageDown", "PageUp", "Home", "End", "Tab"}

\* String::pop
pop(text) == IF text = <<>> THEN text ELSE Front(text)

Status(msg, n) == [msg |-> msg, n |-> n]

handle_filter(a, k) ==
    CASE k = "Esc" ->
            clamp_selection(update_filter_regex(
                [a EXCEPT !.input_mode = "Normal", !.filter_text = <<>>]))
      [] k = "Enter" ->
            clamp_selection(update_filter_regex([a EXCEPT !.input_mode = "Normal"]))
      [] k = "Backspace" ->
            update_filter_regex([a EXCEPT !.filter_text = pop(@)])
      [] k \in CharKeys ->
            update_filter_regex([a EXCEPT !.filter_text = Append(@, k)])
      [] OTHER -> a

handle_search(a, k) ==
    CASE k = "Esc" ->
            [a EXCEPT !.input_mode = "Normal", !.input_buffer = <<>>,
                      !.search_text = <<>>, !.search_regex = None]
      [] k = "Enter" ->
            search_next(update_search_regex(
                [a EXCEPT !.input_mode = "Normal",
                          !.search_text = a.input_buffer,
                          !.input_buffer = <<>>]))
      [] k = "Backspace" -> [a EXCEPT !.input_buffer = pop(@)]
      [] k \in CharKeys -> [a EXCEPT !.input_buffer = Append(@, k)]
      [] OTHER -> a

\* handle_highlight whose Esc also drops the highlights.
handle_highlight_esc_clears(a, k) ==
    CASE k = "Esc" -> [a EXCEPT !.input_mode = "Normal", !.input_buffer = <<>>,
                                !.highlights = <<>>]
      [] k = "Enter" ->
            LET pattern == a.input_buffer
                a1 == [a EXCEPT !.input_mode = "Normal", !.input_buffer = <<>>]
            IN  IF pattern = <<>>
                THEN set_status([a1 EXCEPT !.highlights = <<>>],
                                Status("Highlights cleared", 0))
                ELSE LET a2 == add_highlight(a1, pattern)
                     IN  set_status(a2, Status("Highlight added", Len(a2.highlights)))
      [] k = "Backspace" -> [a EXCEPT !.input_buffer = pop(@)]
      [] k \in CharKeys -> [a EXCEPT !.input_buffer = Append(@, k)]
      [] OTHER -> a

handle_highlight(a, k) ==
    CASE k = "Esc" -> [a EXCEPT !.input_mode = "Normal", !.input_buffer = <<>>]
      [] k = "Enter" ->
            LET pattern == a.input_buffer
                a1 == [a EXCEPT !.input_mode = "Normal", !.input_buffer = <<>>]
            IN  IF pattern = <<>>
                THEN set_status([a1 EXCEPT !.highlights = <<>>],
                                Status("Highlights cleared", 0))
                ELSE LET a2 == add_highlight(a1, pattern)
                     IN  set_status(a2, Status("Highlight added", Len(a2.highlights)))
      [] k = "Backspace" -> [a EXCEPT !.input_buffer = pop(@)]
      [] k \in CharKeys -> [a EXCEPT !.input_buffer = Append(@, k)]
      [] OTHER -> a

\* handle_events in SavePrompt mode where a failed export ends the session.
handle_save_prompt_abort(a, k, io) ==
    CASE k = "Esc" -> [a EXCEPT !.input_mode = "Normal", !.input_buffer = <<>>]
      [] k = "Enter" ->
            LET filename == a.input_buffer
                a1 == [a EXCEPT !.input_mode = "Normal", !.input_buffer = <<>>]
            IN  IF filename = <<>> THEN a1
                ELSE IF io THEN set_status(a1, Status("Saved", visible_count(a1)))
                ELSE [set_status(a1, Status("Save failed", 0)) EXCEPT !.should_quit = TRUE]
      [] k = "Backspace" -> [a EXCEPT !.input_buffer = pop(@)]
      [] k \in CharKeys -> [a EXCEPT !.input_buffer = Append(@, k)]
      [] OTHER -> a

handle_save_prompt(a, k, io) ==
    CASE k = "Esc" -> [a EXCEPT !.input_mode = "Normal", !.input_buffer = <<>>]
      [] k = "Enter" ->
            LET filename == a.input_buffer
                a1 == [a EXCEPT !.input_mode = "Normal", !.input_buffer = <<>>]
            IN  IF filename = <<>> THEN a1
                ELSE IF io THEN set_status(a1, Status("Saved", visible_count(a1)))
                ELSE set_status(a1, Status("Save failed", 0))
      [] k = "Backspace" -> [a EXCEPT !.input_buffer = pop(@)]
      [] k \in CharKeys -> [a EXCEPT !.input_buffer = Append(@, k)]
      [] OTHER -> a

handle_time_jump(a, k) ==
    CASE k = "Esc" -> [a EXCEPT !.input_mode = "Normal", !.input_buffer = <<>>]
      [] k = "Enter" ->
            LET time_str == a.input_buffer
                a1 == [a EXCEPT !.input_mode = "Normal", !.input_buffer = <<>>]
            IN  IF time_str = <<>> THEN a1
                ELSE set_status(jump_to_time(a1, time_str), Status("Jumped to", 0))
      [] k = "Backspace" -> [a EXCEPT !.input_buffer = pop(@)]
      [] k \in CharKeys -> [a EXCEPT !.input_buffer = Append(@, k)]
      [] OTHER -> a

handle_normal(a, k, io) ==
    CASE k = "q" -> [a EXCEPT !.should_quit = TRUE]
      [] k = " " -> [a EXCEPT !.frozen = ~@]
      [] k = "/" -> [a EXCEPT !.input_mode = "Filter", !.filter_text = <<>>]
      [] k = "e" -> clamp_selection([a EXCEPT !.error_only = ~@])
      [] k = "Enter" ->
            IF visible_count(a) > 0 THEN [a EXCEPT !.view_mode = "Detail"] ELSE a
      [] k = "c" -> clear_logs(a)
      [] k \in {"Up", "k"} -> scroll_up(a)
      [] k \in {"Down", "j"} -> scroll_down(a)
      [] k \in {"Right", "l"} -> scroll_right(a)
      [] k \in {"Left", "h"} -> scroll_left(a)
      [] k = "PageDown" -> page_down(a, PAGE_SIZE)
      [] k = "PageUp" -> page_up(a, PAGE_SIZE)
      [] k = "Home" -> jump_to_start(a)
      [] k = "End" -> jump_to_end(a)
      [] k = "?" -> [a EXCEPT !.input_mode = "Search", !.input_buffer = <<>>]
      [] k = "n" -> search_next(a)
      [] k = "N" -> search_prev(a)
      [] k = "y" ->
            IF a.selected_index < visible_count(a)
            THEN IF io THEN set_status(a, Status("Copied to clipboard", 0))
                 ELSE set_status(a, Status("Copy failed", 0))
            ELSE a
      [] k = "*" -> [a EXCEPT !.input_mode = "Highlight", !.input_buffer = <<>>]
      [] k = "s" -> [a EXCEPT !.input_mode = "SavePrompt", !.input_buffer = <<>>]
      [] k = "g" -> [a EXCEPT !.input_mode = "TimeJump", !.input_buffer = <<>>]
      [] OTHER -> a

\* handle_events that looks at the view before it looks for Ctrl+C.
handle_events_detail_first(a, k, io) ==
    IF a.view_mode = "Detail"
    THEN IF k \in {"Esc", "q"} THEN [a EXCEPT !.view_mode = "Feed"] ELSE a
    ELSE IF k = "CtrlC" THEN [a EXCEPT !.should_quit = TRUE]
    ELSE CASE a.input_mode = "Filter" -> handle_filter(a, k)
           [] a.input_mode = "Search" -> handle_search(a, k)
           [] a.input_mode = "Highlight" -> handle_highlight(a, k)
           [] a.input_mode = "SavePrompt" -> handle_save_prompt(a, k, io)
           [] a.input_mode = "TimeJump" -> handle_time_jump(a, k)
           [] a.input_mode = "Normal" -> handle_normal(a, k, io)

\* handle_events whose detail view lets Space through to the pause toggle.
handle_events_detail_pause(a, k, io) ==
    IF k = "CtrlC" THEN [a EXCEPT !.should_quit = TRUE]
    ELSE IF a.view_mode = "Detail" /\ k # " "
         THEN IF k \in {"Esc", "q"} THEN [a EXCEPT !.view_mode = "Feed"] ELSE a
    ELSE CASE a.input_mode = "Filter" -> handle_filter(a, k)
           [] a.input_mode = "Search" -> handle_search(a, k)
           [] a.input_mode = "Highlight" -> handle_highlight(a, k)
           [] a.input_mode = "SavePrompt" -> handle_save_prompt(a, k, io)
           [] a.input_mode = "TimeJump" -> handle_time_jump(a, k)
           [] a.input_mode = "Normal" -> handle_normal(a, k, io)

handle_events(a, k, io) ==
    IF k = "CtrlC" THEN [a EXCEPT !.should_quit = TRUE]
    ELSE IF a.view_mode = "Detail"
         THEN IF k \in {"Esc", "q"} THEN [a EXCEPT !.view_mode = "Feed"] ELSE a
    ELSE CASE a.input_mode = "Filter" -> handle_filter(a, k)
           [] a.input_mode = "Search" -> handle_search(a, k)
           [] a.input_mode = "Highlight" -> handle_highlight(a, k)
           [] a.input_mode = "SavePrompt" -> handle_save_prompt(a, k, io)
           [] a.input_mode = "TimeJump" -> handle_time_jump(a, k)
           [] a.input_mode = "Normal" -> handle_normal(a, k, io)

(***************************************************************************)
(* main.rs: run_tui.                                                       *)
(***************************************************************************)
RECURSIVE add_logs_newest_first(_, _)
\* add_logs that takes the batch from its far end.
add_logs_newest_first(a, lines) ==
    IF lines = <<>> THEN a
    ELSE add_logs_newest_first(add_log(a, fallback_parse(Last(lines))), Front(lines))

RECURSIVE add_logs(_, _)
\* for each line, in order: app.add_log(parser.parse(line))
add_logs(a, lines) ==
    IF lines = <<>> THEN a
    ELSE add_logs(add_log(a, fallback_parse(Head(lines))), Tail(lines))

parse_all(lines) == [i \in 1..Len(lines) |-> fallback_parse(lines[i])]

\* load_history that waits while the stream is paused.
load_history_unless_frozen(a) ==
    LET a1 == [a EXCEPT !.needs_history_load = FALSE]
    IN  IF ~a.needs_history_load \/ a.frozen THEN a
        ELSE IF ~IsSome(a.history) THEN a1
        ELSE LET hist == Unwrap(a.history)
                 raw_lines == load_older_lines(hist, HISTORY_CHUNK)
                 a2 == [a1 EXCEPT !.history = Some(load_older_rest(hist, HISTORY_CHUNK))]
             IN  prepend_logs(a2, parse_all(raw_lines))

load_history(a) ==
    LET a1 == [a EXCEPT !.needs_history_load = FALSE]
    IN  IF ~a.needs_history_load THEN a
        ELSE IF ~IsSome(a.history) THEN a1
        ELSE LET hist == Unwrap(a.history)
                 raw_lines == load_older_lines(hist, HISTORY_CHUNK)
                 a2 == [a1 EXCEPT !.history = Some(load_older_rest(hist, HISTORY_CHUNK))]
             IN  prepend_logs(a2, parse_all(raw_lines))

\* A drain that does not look at frozen.
drain_count_unpaused(a, pending) == Min2(pending, DRAIN_BATCH)

\* A drain that waits until what is pending fits in one batch.
drain_count_whole_only(a, pending) ==
    IF a.frozen \/ pending > DRAIN_BATCH THEN 0 ELSE pending

\* How many lines one iteration takes from the channel.
drain_count(a, pending) == IF a.frozen THEN 0 ELSE Min2(pending, DRAIN_BATCH)

(***************************************************************************)
(* The keys the user presses, by mode, and the caps on unbounded values.   *)
(***************************************************************************)
edited_text(a) == IF a.input_mode = "Filter" THEN a.filter_text ELSE a.input_buffer

InputAllowed(a, k, normal_input) ==
    IF a.view_mode = "Detail" THEN k \in {"CtrlC", "Esc", "q", "Enter", "Tab"}
    ELSE IF a.input_mode = "Normal"
         THEN /\ k \in normal_input
              /\ k \in {"Right", "l"} => a.horizontal_scroll < MaxHScroll
    ELSE /\ k \in {"CtrlC", "Esc", "Enter", "Backspace", "x", "(", "Tab"}
         /\ k \in CharKeys => Len(edited_text(a)) < MaxText
         /\ (a.input_mode = "Highlight" /\ k = "Enter" /\ a.input_buffer # <<>>)
               => Len(a.highlights) < MaxHighlights

\* The clipboard child process and the export file may fail; no other key
\* does I/O.
io_outcomes(a, k) ==
    IF /\ a.view_mode = "Feed"
       /\ \/ a.input_mode = "Normal" /\ k = "y"
          \/ a.input_mode = "SavePrompt" /\ k = "Enter"
    THEN BOOLEAN ELSE {TRUE}

\* The key makes jump_to_time run and find an entry.
jump_found(a, k) ==
    /\ k = "Enter"
    /\ a.view_mode = "Feed"
    /\ a.input_mode = "TimeJump"
    /\ a.input_buffer # <<>>
    /\ time_hits(a, a.input_buffer) # {}

level_of(line) == fallback_parse(line).level

any_structured(lines) == \E i \in 1..Len(lines) : level_of(lines[i]) # "Unknown"

Init ==
    /\ \E h \in {None, Some(HistoryFile)} : app = [AppNew EXCEPT !.history = h]
    /\ chan = <<>>
    /\ nextId = 1
    /\ seen_structured = FALSE
    /\ detected_parser = "Plain"
    /\ since_jump = "none"
    /\ producer = None
    /\ frame = None
    /\ pc = "start"

\* A producer task sends one line (tx.send).  A send commutes with every step
\* of run_tui that does not read the channel, so sends are taken only where
\* the channel is read next.
Produce ==
    /\ pc \in {"start", "ingest"}
    /\ nextId <= MaxLines
    /\ \E t \in LineTexts : chan' = Append(chan, [id |-> nextId, txt |-> t])
    /\ nextId' = nextId + 1
    /\ UNCHANGED <<app, seen_structured, detected_parser, since_jump, pc, frame, producer>>

\* run_tui before the loop: the parser is detected from the lines already in
\* the channel and every one of them is ingested.  No parser but the plain
\* one accepts a line of LineTexts, so the lines are parsed by fallback_parse.
Startup ==
    /\ pc = "start"
    /\ app' = add_logs(app, chan)
    /\ seen_structured' = (seen_structured \/ any_structured(chan))
    /\ detected_parser' = detect_parser(sample_of(chan))
    /\ chan' = <<>>
    /\ pc' = "poll"
    /\ UNCHANGED <<nextId, since_jump, frame, producer>>

\* terminal.draw, then event::poll returns a key within 50 ms.
HandleKey(normal_input) ==
    /\ pc = "poll"
    /\ \E k \in Keys :
          /\ InputAllowed(app, k, normal_input)
          /\ \E io \in io_outcomes(app, k) : app' = handle_events(app, k, io)
          /\ since_jump' = IF since_jump # "none" \/ jump_found(app, k)
                           THEN "keyed" ELSE "none"
    /\ pc' = IF app'.should_quit THEN "done" ELSE "history"
    /\ UNCHANGED <<chan, nextId, seen_structured, detected_parser, frame, producer>>

\* terminal.draw, then event::poll times out.
PollTimeout ==
    /\ pc = "poll"
    /\ pc' = "history"
    /\ since_jump' = IF since_jump = "none" THEN "none" ELSE "idle"
    /\ UNCHANGED <<app, chan, nextId, seen_structured, detected_parser, frame, producer>>

HistoryLoad ==
    /\ pc = "history"
    /\ app' = load_history(app)
    /\ pc' = "ingest"
    /\ UNCHANGED <<chan, nextId, seen_structured, detected_parser, since_jump, frame, producer>>

Ingest ==
    /\ pc = "ingest"
    /\ LET n == drain_count(app, Len(chan))
       IN  /\ app' = add_logs(app, SubSeq(chan, 1, n))
           /\ seen_structured' = (seen_structured \/ any_structured(SubSeq(chan, 1, n)))
           /\ chan' = SubSeq(chan, n + 1, Len(chan))
    /\ pc' = "tick"
    /\ UNCHANGED <<nextId, detected_parser, since_jump, frame, producer>>

\* tick_eps and clear_expired_status; clock is the set of the times, in half
\* seconds, that may have passed since the meter last advanced.
Tick(clock) ==
    /\ pc = "tick"
    /\ \E elapsed \in clock, expired \in BOOLEAN :
          /\ app.eps_last_tick + elapsed <= MaxClock
          /\ app' = clear_expired_status(tick_eps(app, app.eps_last_tick + elapsed), expired)
    /\ pc' = "poll"
    /\ UNCHANGED <<chan, nextId, seen_structured, detected_parser, since_jump, frame, producer>>

\* The scheduler with the cursor keys, in a session shorter than a second.
Next ==
    \/ Produce
    \/ Startup
    \* cursor motion, pause, clear, error-only, filter entry, quit
    \/ HandleKey({"CtrlC", "q", " ", "/", "e", "c", "Up", "Down",
                  "PageDown", "PageUp", "Home", "End"})
    \/ PollTimeout
    \/ HistoryLoad
    \/ Ingest
    \/ Tick({0})

Spec == Init /\ [][Next]_vars

\* A session on a source without history (stdin, docker, ssh, k8s, compose).
InitLive == Init /\ app.history = None

SpecLive == InitLive /\ [][Next]_vars

(***************************************************************************)
(* The store alone: one pass of the receive loop of run_tui per step       *)
(* (try_recv, parse, add_log), with no key pressed.                        *)
(***************************************************************************)
AppendLines == 5

ProduceStore ==
    /\ nextId <= AppendLines
    /\ \E t \in LineTexts : chan' = Append(chan, [id |-> nextId, txt |-> t])
    /\ nextId' = nextId + 1
    /\ UNCHANGED <<app, seen_structured, detected_parser, since_jump, pc, frame, producer>>

ReceiveOne ==
    /\ chan # <<>>
    /\ app' = add_log(app, fallback_parse(Head(chan)))
    /\ seen_structured' = (seen_structured \/ level_of(Head(chan)) # "Unknown")
    /\ chan' = Tail(chan)
    /\ UNCHANGED <<nextId, detected_parser, since_jump, pc, frame, producer>>

NextAppend == ProduceStore \/ ReceiveOne

SpecAppend == Init /\ [][NextAppend]_vars

(***************************************************************************)
(* Properties.                                                             *)
(***************************************************************************)
RECURSIVE Flatten(_)
\* Every line held by the store, in order: each entry's line, then its
\* continuation lines.
Flatten(logs) ==
    IF logs = <<>> THEN <<>>
    ELSE <<Head(logs).raw>> \o Head(logs).extra_lines \o Flatten(Tail(logs))

IsSuffix(s, t) ==
    /\ Len(s) <= Len(t)
    /\ SubSeq(t, Len(t) - Len(s) + 1, Len(t)) = s

HoldsLine(logs, id) == \E i \in 1..Len(logs) : logs[i].raw.id = id

\* The step of run_tui that reads the channel in the loop.
IngestStep == pc = "ingest" /\ pc' = "tick"

\* Either step of run_tui that reads the channel.
DrainStep == pc \in {"start", "ingest"} /\ pc' # pc

\* One pass of the receive loop.
ReceiveStep == chan # <<>> /\ chan' = Tail(chan)

\* C1: between event-loop iterations 0 <= selected_index < max(1, visible_count),
\* and selected_index = 0 when the visible set is empty.
C1_CursorInvariant ==
    pc = "poll" =>
        LET count == visible_count(app)
        IN  /\ 0 <= app.selected_index
            /\ app.selected_index < (IF count > 1 THEN count ELSE 1)
            /\ count = 0 => app.selected_index = 0

\* C2: an iteration that runs frozen takes no line from the channel and its
\* ingest step leaves entries and total_count alone; an iteration that runs
\* unfrozen takes the first min(pending, DRAIN_BATCH) lines, in order, and
\* the store then ends with exactly those lines; never more than DRAIN_BATCH.
\* (The store keeps a whole batch because DRAIN_BATCH <= MAX_LOG_LINES.)
C2_FrozenSemantics ==
    [][IngestStep =>
        LET n == Len(chan) - Len(chan')
        IN  /\ n >= 0
            /\ n <= DRAIN_BATCH
            /\ chan' = SubSeq(chan, n + 1, Len(chan))
            /\ app.frozen =>
                  /\ n = 0
                  /\ app'.logs = app.logs
                  /\ app'.total_count = app.total_count
            /\ ~app.frozen =>
                  /\ n = Min2(Len(chan), DRAIN_BATCH)
                  /\ IsSuffix(SubSeq(chan, 1, n), Flatten(app'.logs))]_vars

\* A frozen iteration has passed its ingest step with lines still pending.
C2_Witness ==
    /\ pc = "tick"
    /\ app.frozen
    /\ Len(chan) > 0
    /\ app.total_count > 0

\* C3: filter_regex is None iff filter_text is empty, and search_regex is
\* None iff search_text is empty.
C3_PatternTextConsistency ==
    /\ (app.filter_regex = None) <=> (app.filter_text = <<>>)
    /\ (app.search_regex = None) <=> (app.search_text = <<>>)

\* C4: in a session of appends only, when a line of level Unknown is appended
\* after some entry of another level was, the tail entry stays the same entry,
\* its level is not Unknown, and the line is the last of its extra_lines.
C4_ContinuationRule ==
    [][(ReceiveStep /\ level_of(Head(chan)) = "Unknown" /\ seen_structured) =>
        /\ Len(app'.logs) > 0
        /\ Len(app.logs) > 0
        /\ Last(app'.logs).level # "Unknown"
        /\ Last(app'.logs).raw = Last(app.logs).raw
        /\ Len(Last(app'.logs).extra_lines) > 0
        /\ Last(Last(app'.logs).extra_lines) = Head(chan)]_vars

\* The tail entry carries two continuation lines.
C4_Witness ==
    /\ seen_structured
    /\ Len(app.logs) > 0
    /\ Len(Last(app.logs).extra_lines) >= 2

\* C5: while no entry of a level other than Unknown has been appended, a drain
\* of n lines creates n entries (total_count grows by n, the store by n up to
\* its capacity) and no entry of the store has continuation lines.
C5_NoGroupingInPlainStream ==
    [][~seen_structured' =>
        /\ \A i \in 1..Len(app'.logs) : app'.logs[i].extra_lines = <<>>
        /\ DrainStep =>
              LET n == Len(chan) - Len(chan')
              IN  /\ app'.total_count = app.total_count + n
                  /\ Len(app'.logs) = Min2(Len(app.logs) + n, MAX_LOG_LINES)]_vars

\* A plain line was appended behind a structured entry that came from the
\* history, in a session that has appended no structured entry.
C5_Witness ==
    /\ ~seen_structured
    /\ app.total_count > 0
    /\ Len(app.logs) >= 2
    /\ Last(app.logs).level = "Unknown"
    /\ Last(app.logs).raw.id >= 1
    /\ app.logs[Len(app.logs) - 1].level # "Unknown"

\* C6: every entry with continuation lines has a level other than Unknown.
C6_ExtraLinesOnlyOnStructured ==
    \A i \in 1..Len(app.logs) :
        app.logs[i].extra_lines # <<>> => app.logs[i].level # "Unknown"

\* An entry with continuation lines sits behind an Unknown entry.
C6_Witness ==
    \E i \in 1..Len(app.logs) :
        /\ app.logs[i].extra_lines # <<>>
        /\ \E j \in 1..Len(app.logs) : app.logs[j].level = "Unknown"

\* C7: the store never holds more than MAX_LOG_LINES entries.
C7_CapacityBound == Len(app.logs) <= MAX_LOG_LINES

\* A full store headed by a history entry, after more appends than it holds.
C7_Witness ==
    /\ Len(app.logs) = MAX_LOG_LINES
    /\ app.total_count > MAX_LOG_LINES
    /\ app.logs[1].raw.id < 1

\* C8: total_count and error_count never decrease, and error_count <= total_count.
C8_SessionCounters ==
    /\ [](app.error_count <= app.total_count)
    /\ [][/\ app'.total_count >= app.total_count
          /\ app'.error_count >= app.error_count]_vars

\* The store was cleared and the counters kept their values.
C8_Witness ==
    /\ app.logs = <<>>
    /\ app.error_count > 0
    /\ app.total_count > app.error_count

\* C9: after N > MAX_LOG_LINES appends that each made an entry (total_count = N),
\* the store holds the last MAX_LOG_LINES appended lines, in append order.
C9_FifoEviction ==
    LET N == nextId - 1 - Len(chan)
    IN  (app.total_count = N /\ N > MAX_LOG_LINES) =>
            /\ Len(app.logs) = MAX_LOG_LINES
            /\ \A i \in 1..Len(app.logs) :
                  /\ app.logs[i].raw.id = N - MAX_LOG_LINES + i
                  /\ app.logs[i].extra_lines = <<>>

\* Two more entries were appended than the store holds.
C9_Witness ==
    /\ app.total_count = nextId - 1 - Len(chan)
    /\ app.total_count >= MAX_LOG_LINES + 2

\* C10: when an ingest step evicts the head of a full store, the entry at the
\* cursor is the same entry afterwards, unless it was evicted.
C10_StableCursor ==
    [][(/\ IngestStep
        /\ Len(app.logs) = MAX_LOG_LINES
        /\ Len(app'.logs) > 0
        /\ app'.logs[1].raw.id # app.logs[1].raw.id
        /\ app.selected_index < visible_count(app)
        /\ HoldsLine(app'.logs, visible_logs(app)[app.selected_index + 1].raw.id)) =>
        /\ app'.selected_index < visible_count(app')
        /\ visible_logs(app')[app'.selected_index + 1].raw.id
              = visible_logs(app)[app.selected_index + 1].raw.id]_vars

\* The step of run_tui that loads older history.
HistoryStep == pc = "history" /\ pc' = "ingest"

\* C11: a history prepend of a non-empty batch advances selected_index by the
\* batch size, and the entry at visible ordinal selected_index afterwards is
\* the entry that was under the cursor before, whatever the filter, the
\* error-only setting and the fill of the store.
C11_PrependKeepsCursor ==
    [][(HistoryStep /\ app.needs_history_load /\ history_has_more(app)) =>
          LET batch == Min2(HISTORY_CHUNK, Len(Unwrap(app.history)))
              before == visible_logs(app)
              after == visible_logs(app')
          IN  /\ app'.selected_index = app.selected_index + batch
              /\ app.selected_index < Len(before) =>
                    /\ app'.selected_index < Len(after)
                    /\ after[app'.selected_index + 1] = before[app.selected_index + 1]]_vars

(***************************************************************************)
(* Sessions that reach every input mode and the detail view, on a source   *)
(* without history that sends a few plain lines.                           *)
(***************************************************************************)
ModeLines == 2

ModeDetailInput == {"CtrlC", "Esc", "q", "Tab"}

InputAllowedIn(a, k, normal_input, text_input, detail_input) ==
    IF a.view_mode = "Detail" THEN k \in detail_input
    ELSE IF a.input_mode = "Normal"
         THEN /\ k \in normal_input
              /\ k \in {"Right", "l"} => a.horizontal_scroll < MaxHScroll
    ELSE /\ k \in text_input
         /\ k \in CharKeys => Len(edited_text(a)) < MaxText
         /\ (a.input_mode = "Highlight" /\ k = "Enter" /\ a.input_buffer # <<>>)
               => Len(a.highlights) < MaxHighlights

\* A producer task of a source that sends at most cap lines, each from texts.
ProduceFrom(texts, cap) ==
    /\ pc \in {"start", "ingest"}
    /\ nextId <= cap
    /\ \E t \in texts : chan' = Append(chan, [id |-> nextId, txt |-> t])
    /\ nextId' = nextId + 1
    /\ UNCHANGED <<app, seen_structured, detected_parser, since_jump, pc, frame, producer>>

\* terminal.draw, then event::poll returns one of the given keys.
HandleKeyIn(normal_input, text_input, detail_input) ==
    /\ pc = "poll"
    /\ \E k \in Keys :
          /\ InputAllowedIn(app, k, normal_input, text_input, detail_input)
          /\ \E io \in io_outcomes(app, k) : app' = handle_events(app, k, io)
          /\ since_jump' = IF since_jump # "none" \/ jump_found(app, k)
                           THEN "keyed" ELSE "none"
    /\ pc' = IF app'.should_quit THEN "done" ELSE "history"
    /\ UNCHANGED <<chan, nextId, seen_structured, detected_parser, frame, producer>>

NextModes ==
    \/ ProduceFrom({<<"x">>}, ModeLines)
    \/ Startup
    \/ HandleKeyIn({"CtrlC", "q", "Enter", "/", "?", "*", "s", "g"},
                   {"CtrlC", "Esc", "Enter", "Backspace", "x"}, ModeDetailInput)
    \/ PollTimeout
    \/ HistoryLoad
    \/ Ingest
    \/ Tick({0})

SpecModes == InitLive /\ [][NextModes]_vars

(***************************************************************************)
(* Sessions of scrolling and clearing.                                     *)
(***************************************************************************)
NextView ==
    \/ Produce
    \/ Startup
    \/ HandleKey({"c", "Right", "Left", "Down", "Up"})
    \/ PollTimeout
    \/ HistoryLoad
    \/ Ingest
    \/ Tick({0})

SpecView == InitLive /\ [][NextView]_vars

\* C12 as stated: 'c' in the feed empties the store and resets both
\* selected_index and horizontal_scroll to 0.
C12_ClearResetsHScroll ==
    (pc = "poll" /\ app.view_mode = "Feed" /\ app.input_mode = "Normal") =>
        LET cleared == handle_events(app, "c", TRUE)
        IN  /\ cleared.logs = <<>>
            /\ cleared.selected_index = 0
            /\ cleared.horizontal_scroll = 0

\* C12 amended: 'c' in the feed empties the store and resets selected_index
\* and scroll_offset to 0; horizontal_scroll and every other field are left
\* as they were.
C12_ClearKeepsHScroll ==
    (pc = "poll" /\ app.view_mode = "Feed" /\ app.input_mode = "Normal") =>
        handle_events(app, "c", TRUE) =
            [app EXCEPT !.logs = <<>>, !.selected_index = 0, !.scroll_offset = 0]

\* The store was cleared while the view was scrolled to the right.
C12_Witness ==
    /\ pc = "history"
    /\ app.logs = <<>>
    /\ app.total_count > 1
    /\ app.horizontal_scroll > 0

\* C13: has_structured_logs is false until an entry of a level other than
\* Unknown is passed to add_log, true from the step that passes the first one,
\* and never reset afterwards: at every step it equals the history variable
\* seen_structured, which starts FALSE and only ever turns TRUE.
C13_StructuredFlag == app.has_structured_logs = seen_structured

\* The flag is still set although no appended entry is left in the store:
\* only prepended history remains.
C13_Witness ==
    /\ app.has_structured_logs
    /\ app.total_count > Len(app.logs)
    /\ \A i \in 1..Len(app.logs) : app.logs[i].raw.id < 1
    /\ app.logs # <<>>

\* C14: when the one line an iteration ingests is a continuation (structured
\* entries were seen, the line's level is Unknown, the tail entry's level is
\* not), the tail entry's extra_lines gains the line as its last element and
\* nothing else changes: not the number of entries, total_count, error_count,
\* eps_counter, selected_index or any other entry.
C14_GroupedAppendFrame ==
    [][(/\ IngestStep
        /\ ~app.frozen
        /\ Len(chan) = 1
        /\ seen_structured
        /\ level_of(Head(chan)) = "Unknown"
        /\ app.logs # <<>>
        /\ Last(app.logs).level # "Unknown") =>
          app' = [app EXCEPT !.logs[Len(app.logs)].extra_lines
                                 = Append(@, Head(chan))]]_vars

\* A continuation line was attached while the cursor was off the first row.
C14_Witness ==
    /\ app.logs # <<>>
    /\ Last(app.logs).extra_lines # <<>>
    /\ app.selected_index > 0
    /\ app.total_count = Len(app.logs)
    /\ pc = "tick"

\* C15: lines are ingested in the order the channel delivers them.  Of the
\* lines a producer sent (ids count its sends), every line the store holds
\* was sent before every line still in the channel, the channel holds its
\* lines in send order, and the store holds its lines and its entries in send
\* order.
C15_IngestionOrder ==
    LET held == Flatten(app.logs)
        sent(line) == line.id >= 1
    IN  /\ \A i, j \in 1..Len(chan) : i < j => chan[i].id < chan[j].id
        /\ \A i \in 1..Len(held), j \in 1..Len(chan) :
              sent(held[i]) => held[i].id < chan[j].id
        /\ \A i, j \in 1..Len(held) :
              (i < j /\ sent(held[i]) /\ sent(held[j])) => held[i].id < held[j].id
        /\ \A i, j \in 1..Len(app.logs) :
              (i < j /\ sent(app.logs[i].raw) /\ sent(app.logs[j].raw)) =>
                  app.logs[i].raw.id < app.logs[j].raw.id

\* Two sent lines are entries of the store, the second ingested by the loop,
\* and a third is waiting in the channel.
C15_Witness ==
    /\ Len(app.logs) = 2
    /\ app.logs[1].raw.id = 1
    /\ app.logs[2].raw.id = 2
    /\ chan # <<>>
    /\ pc = "tick"

\* C16: in every view and input mode a Ctrl+C sets should_quit and changes
\* nothing else; 'q' sets should_quit in the feed with Normal input and
\* nowhere else; and the step that sets should_quit ends the loop at once
\* (no history load, no drain, no tick follows) with the channel as it was.
C16_CtrlCQuitsEverywhere ==
    /\ [](pc = "poll" =>
            \A io \in BOOLEAN :
               /\ handle_events(app, "CtrlC", io) = [app EXCEPT !.should_quit = TRUE]
               /\ handle_events(app, "q", io).should_quit
                     <=> (app.view_mode = "Feed" /\ app.input_mode = "Normal"))
    /\ [](app.should_quit <=> pc = "done")
    /\ [][app'.should_quit => (pc' = "done" /\ chan' = chan /\ nextId' = nextId)]_vars

\* The loop was left by Ctrl+C from a text-entry mode, with lines pending.
C16_Witness ==
    /\ pc = "done"
    /\ app.input_mode = "Search"
    /\ app.input_buffer # <<>>
    /\ chan # <<>>

\* C17: in the detail view Esc and 'q' set view_mode to Feed and change
\* nothing else, and every other key but Ctrl+C changes nothing at all,
\* whatever the outcome of the I/O the key would do in the feed.
C17_DetailViewKeys ==
    (pc = "poll" /\ app.view_mode = "Detail") =>
        \A k \in Keys \ {"CtrlC"}, io \in BOOLEAN :
            handle_events(app, k, io) =
                IF k \in {"Esc", "q"} THEN [app EXCEPT !.view_mode = "Feed"] ELSE app

\* An iteration has handled a key, or none, in the detail view, the store
\* behind it filtered and lines pending.
C17_Witness ==
    /\ pc = "history"
    /\ app.view_mode = "Detail"
    /\ app.filter_text # <<>>
    /\ app.frozen
    /\ chan # <<>>

\* C18: in Filter mode Enter and Esc both set input_mode to Normal, Esc also
\* empties filter_text and unsets the pattern, and after either key
\* selected_index < max(1, visible_count), the count taken under the filter
\* the key leaves in force.
C18_LeavingFilterClamps ==
    (pc = "poll" /\ app.view_mode = "Feed" /\ app.input_mode = "Filter") =>
        LET entered == handle_events(app, "Enter", TRUE)
            escaped == handle_events(app, "Esc", TRUE)
            bound(a) == IF visible_count(a) > 1 THEN visible_count(a) ELSE 1
        IN  /\ entered.input_mode = "Normal"
            /\ entered.selected_index < bound(entered)
            /\ escaped.input_mode = "Normal"
            /\ escaped.filter_text = <<>>
            /\ escaped.filter_regex = None
            /\ escaped.selected_index < bound(escaped)

\* Filter mode was left with a filter in force that hides an entry, the
\* cursor on the last visible row.
C18_Witness ==
    /\ pc = "history"
    /\ app.input_mode = "Normal"
    /\ app.filter_text # <<>>
    /\ visible_count(app) = 1
    /\ Len(app.logs) = 2
    /\ app.selected_index = 0
    /\ visible_logs(app)[1] = app.logs[1]

\* What C19 says Esc does to a text-entry mode: back to Normal, the input
\* buffer emptied, every other field as it was.
EscCancels(a) == [a EXCEPT !.input_mode = "Normal", !.input_buffer = <<>>]

\* C19 as stated: in Search, Highlight, SavePrompt and TimeJump modes Esc sets
\* input_mode to Normal, empties input_buffer and leaves every other field
\* unchanged, the committed search_text and search_regex included.
C19_EscWithoutSideEffects ==
    (/\ pc = "poll"
     /\ app.view_mode = "Feed"
     /\ app.input_mode \in {"Search", "Highlight", "SavePrompt", "TimeJump"}) =>
        handle_events(app, "Esc", TRUE) = EscCancels(app)

\* C19 amended: in Highlight, SavePrompt and TimeJump modes Esc sets
\* input_mode to Normal, empties input_buffer and leaves every other field
\* unchanged; in Search mode it also empties search_text and unsets
\* search_regex, and leaves every other field unchanged.
C19_EscClearsSearchOnly ==
    (pc = "poll" /\ app.view_mode = "Feed") =>
        /\ app.input_mode \in {"Highlight", "SavePrompt", "TimeJump"} =>
              handle_events(app, "Esc", TRUE) = EscCancels(app)
        /\ app.input_mode = "Search" =>
              handle_events(app, "Esc", TRUE) =
                  [EscCancels(app) EXCEPT !.search_text = <<>>, !.search_regex = None]

\* Esc has just left a text-entry mode that was entered with a search
\* committed, a highlight set and the stream paused: the search is gone, the
\* highlight and the pause are not.
C19_Witness ==
    /\ pc = "history"
    /\ app.input_mode = "Normal"
    /\ app.input_buffer = <<>>
    /\ app.search_text = <<>>
    /\ app.search_regex = None
    /\ app.highlights # <<>>
    /\ app.frozen
    /\ app.status_message = None

(***************************************************************************)
(* Sessions of time jumps and pauses.                                      *)
(***************************************************************************)
NextJump ==
    \/ Produce
    \/ Startup
    \/ HandleKeyIn({"g", " ", "Down"}, {"Esc", "Enter", "x", "y"}, ModeDetailInput)
    \/ PollTimeout
    \/ HistoryLoad
    \/ Ingest
    \/ Tick({0})

SpecJump == InitLive /\ [][NextJump]_vars

\* The line of the entry under the cursor, if there is one.
designated(a) ==
    IF a.selected_index < visible_count(a)
    THEN Some(visible_logs(a)[a.selected_index + 1].raw.id) ELSE None

\* What Enter does in TimeJump mode with a string typed: with a visible entry
\* that matches, selected_index is the ordinal of the first such entry in
\* visible order and frozen is true; with none, both are as they were.
JumpLandsOnFirstMatch ==
    (/\ pc = "poll"
     /\ app.view_mode = "Feed"
     /\ app.input_mode = "TimeJump"
     /\ app.input_buffer # <<>>) =>
        LET hits == time_hits(app, app.input_buffer)
            after == handle_events(app, "Enter", TRUE)
        IN  IF hits # {}
            THEN /\ after.selected_index + 1 \in hits
                 /\ \A i \in hits : after.selected_index + 1 <= i
                 /\ after.frozen
            ELSE /\ after.selected_index = app.selected_index
                 /\ after.frozen = app.frozen

\* A step inside an iteration that handles no key, after some jump found its
\* entry.
IdleStepAfterJump == since_jump = "idle" /\ since_jump' = "idle"

\* C20 as stated: a time jump lands on the first matching visible entry and
\* sets frozen, or changes neither if nothing matches; and from then on no
\* iteration without a key event changes selected_index or the entry it
\* designates.
C20_TimeJumpHoldsForever ==
    /\ []JumpLandsOnFirstMatch
    /\ [][IdleStepAfterJump =>
             /\ app'.selected_index = app.selected_index
             /\ designated(app') = designated(app)]_vars

\* C20 amended: the same, the second part for as long as frozen stays true.
C20_TimeJumpHoldsWhileFrozen ==
    /\ []JumpLandsOnFirstMatch
    /\ [][(IdleStepAfterJump /\ app.frozen) =>
             /\ app'.selected_index = app.selected_index
             /\ designated(app') = designated(app)]_vars

\* A jump has landed on the second visible row, and an iteration without a
\* key has since passed its ingest step with a line pending.
C20_Witness ==
    /\ since_jump = "idle"
    /\ pc = "tick"
    /\ app.frozen
    /\ app.selected_index = 1
    /\ chan # <<>>

(***************************************************************************)
(* Sessions on a Laravel log: run_tui with the Laravel parser, after the   *)
(* lines that were in the channel at startup have been ingested and with   *)
(* no line sent since.  A date-time is one word, "1" or "2".               *)
(***************************************************************************)
StampedLines == 2

RECURSIVE add_entries(_, _)
\* for each entry, in order: app.add_log(entry)
add_entries(a, entries) ==
    IF entries = <<>> THEN a
    ELSE add_entries(add_log(a, Head(entries)), Tail(entries))

InitStamped ==
    \* two dated lines, the second with the first's date-time in its message,
    \* and a line of a stack trace
    /\ \E n \in 1..StampedLines :
       \E texts \in [1..n -> {<<"1", "ERROR", "x">>, <<"2", "INFO", "1">>, <<"x">>}] :
          LET entries == [i \in 1..n |-> laravel_parse([id |-> i, txt |-> texts[i]])]
          IN  /\ app = add_entries(AppNew, entries)
              /\ nextId = n + 1
              /\ seen_structured = (\E i \in 1..n : entries[i].level # "Unknown")
    /\ chan = <<>>
    /\ detected_parser = "Laravel"
    /\ since_jump = "none"
    /\ producer = None
    /\ frame = None
    /\ pc = "poll"

NextStamped ==
    \/ HandleKeyIn({"g", "Down"}, {"Esc", "Enter", "x", "1", "2"}, ModeDetailInput)
    \/ PollTimeout
    \/ HistoryLoad
    \/ Ingest
    \/ Tick({0})

SpecStamped == InitStamped /\ [][NextStamped]_vars

\* C21 as stated: a time jump takes as hits the visible entries whose
\* timestamp contains the string, and of the entries without a timestamp
\* those whose raw line contains it; it lands on the first hit, and moves
\* nothing when there is none.
C21_TimestampOrElseRaw ==
    (/\ pc = "poll"
     /\ app.view_mode = "Feed"
     /\ app.input_mode = "TimeJump"
     /\ app.input_buffer # <<>>) =>
        LET s == app.input_buffer
            visible == visible_logs(app)
            hit(e) == IF IsSome(e.timestamp)
                      THEN Contains(Unwrap(e.timestamp), s)
                      ELSE Contains(e.raw.txt, s)
            hits == {i \in 1..Len(visible) : hit(visible[i])}
            after == handle_events(app, "Enter", TRUE)
        IN  IF hits # {}
            THEN /\ after.selected_index + 1 \in hits
                 /\ \A i \in hits : after.selected_index + 1 <= i
            ELSE after.selected_index = app.selected_index

\* C21 amended: a time jump takes as hits the visible entries whose timestamp
\* contains the string and also those whose raw line contains it, with or
\* without a timestamp; it lands on the first hit, and moves nothing when
\* there is none.
C21_TimestampThenRaw ==
    (/\ pc = "poll"
     /\ app.view_mode = "Feed"
     /\ app.input_mode = "TimeJump"
     /\ app.input_buffer # <<>>) =>
        LET s == app.input_buffer
            visible == visible_logs(app)
            hit(e) == \/ IsSome(e.timestamp) /\ Contains(Unwrap(e.timestamp), s)
                      \/ Contains(e.raw.txt, s)
            hits == {i \in 1..Len(visible) : hit(visible[i])}
            after == handle_events(app, "Enter", TRUE)
        IN  IF hits # {}
            THEN /\ after.selected_index + 1 \in hits
                 /\ \A i \in hits : after.selected_index + 1 <= i
            ELSE after.selected_index = app.selected_index

\* A jump has landed on the second row, an entry whose raw line alone holds
\* the string: the first row holds both date-times and was passed over.
C21_Witness ==
    /\ since_jump = "keyed"
    /\ pc = "history"
    /\ Len(app.logs) = 2
    /\ app.logs[1].raw.txt = <<"2", "INFO", "1">>
    /\ app.logs[2].timestamp = Some(<<"1">>)
    /\ app.selected_index = 1
    /\ app.frozen
    /\ app.status_message # None

(***************************************************************************)
(* Sessions of searching.                                                  *)
(***************************************************************************)
NextSearch ==
    \/ Produce
    \/ Startup
    \/ HandleKeyIn({"?", "n", "N", "Down", "e"}, {"Esc", "Enter", "x", "y"}, ModeDetailInput)
    \/ PollTimeout
    \/ HistoryLoad
    \/ Ingest
    \/ Tick({0})

SpecSearch == InitLive /\ [][NextSearch]_vars

\* The visible ordinals whose entry the committed search pattern matches, in
\* its line or in one of its continuation lines.
search_matches(a) ==
    LET visible == visible_logs(a)
        found(e) == \/ Contains(e.raw.txt, Unwrap(a.search_regex).pat)
                    \/ \E i \in 1..Len(e.extra_lines) :
                          Contains(e.extra_lines[i].txt, Unwrap(a.search_regex).pat)
    IN  IF IsSome(a.search_regex)
        THEN {j \in 0..(Len(visible) - 1) : found(visible[j + 1])}
        ELSE {}

C23_ForwardMotion ==
    (pc = "poll" /\ app.view_mode = "Feed" /\ app.input_mode = "Normal") =>
        LET count == visible_count(app)
            down == handle_events(app, "Down", TRUE).selected_index
            page == handle_events(app, "PageDown", TRUE).selected_index
            end == handle_events(app, "End", TRUE).selected_index
        IN  IF count = 0
            THEN /\ down = app.selected_index
                 /\ page = app.selected_index
                 /\ end = app.selected_index
            ELSE /\ down = Min2(app.selected_index + 1, count - 1)
                 /\ page = Min2(app.selected_index + PAGE_SIZE, count - 1)
                 /\ end = count - 1

DetectLines == 3

InitDetect ==
    /\ app = AppNew
    \* one line or two of each format, and a plain line
    /\ \E n \in 0..DetectLines :
       \E texts \in [1..n -> {<<"{", "}">>, <<"{", "level", "error", "}">>,
                              <<"1", "ERROR", "x">>,
                              <<"D", "INFO", "x", "x">>,
                              <<"T", "WARN", "x">>, <<"G", "x">>,
                              <<"ip", "-", "-", "N", "GET", "2", "0", "0", "5">>,
                              <<"x">>}] :
          /\ chan = [i \in 1..n |-> [id |-> i, txt |-> texts[i]]]
          /\ nextId = n + 1
    /\ seen_structured = FALSE
    /\ detected_parser = "Plain"
    /\ since_jump = "none"
    /\ producer = None
    /\ frame = None
    /\ pc = "start"

\* run_tui before the loop, with the detected parser.
StartupDetect ==
    /\ pc = "start"
    /\ LET parser == detect_parser(sample_of(chan))
           entries == [i \in 1..Len(chan) |-> parse(parser, chan[i])]
       IN  /\ detected_parser' = parser
           /\ app' = add_entries(app, entries)
           /\ seen_structured' = (\E i \in 1..Len(chan) : entries[i].level # "Unknown")
    /\ chan' = <<>>
    /\ pc' = "poll"
    /\ UNCHANGED <<nextId, since_jump, frame, producer>>

NextDetect ==
    \/ StartupDetect
    \/ HandleKey({"Down", "Up", "e"})
    \/ PollTimeout
    \/ HistoryLoad
    \/ Ingest
    \/ Tick({0})

SpecDetect == InitDetect /\ [][NextDetect]_vars

\* C25: the parser that startup detects is the first in probe order of the
\* parsers that accept the most sample lines, and the Plain fallback when no
\* parser accepts a sample line or there is no sample line.
C25_DetectedParser ==
    [][(pc = "start" /\ pc' = "poll") =>
        LET samples == sample_of(chan)
            accepted(p) == {i \in 1..Len(samples) : can_parse(Parsers[p], samples[i].txt)}
            n(p) == Cardinality(accepted(p))
            probes == 1..Len(Parsers)
        IN  IF \A p \in probes : n(p) = 0
            THEN detected_parser' = "Plain"
            ELSE \E p \in probes :
                    /\ detected_parser' = Parsers[p]
                    /\ \A q \in probes : n(q) <= n(p)
                    /\ \A q \in probes : q < p => n(q) < n(p)]_vars

\* Two lines were sampled, one of Laravel and one of Django: a tie, and the
\* Laravel parser, the earlier of the two, was detected.
C25_Witness ==
    /\ pc = "poll"
    /\ nextId = 3
    /\ detected_parser = "Laravel"
    /\ \E i \in 1..Len(app.logs) : app.logs[i].raw.txt[1] = "D"

(***************************************************************************)
(* Sessions on an access log: at startup the channel holds one combined    *)
(* access-log line, of any three-digit status code.                        *)
(***************************************************************************)
InitAccess ==
    /\ app = AppNew
    /\ \E d1 \in Digits : \E d2 \in Digits : \E d3 \in Digits :
          chan = <<[id |-> 1, txt |-> <<"ip", "-", "-", "N", "GET", d1, d2, d3, "5">>]>>
    /\ nextId = 2
    /\ seen_structured = FALSE
    /\ detected_parser = "Plain"
    /\ since_jump = "none"
    /\ producer = None
    /\ frame = None
    /\ pc = "start"

SpecAccess == InitAccess /\ [][NextDetect]_vars

\* C26: the entry of an accepted access-log line has level Info for a status
\* code of 200..299, Debug for 300..399, Warn for 400..499, Error for
\* 500..599 and Unknown for every other three-digit code.
C26_StatusLevels ==
    \A i \in 1..Len(app.logs) :
        LET txt == app.logs[i].raw.txt
            s == 100 * digit_value(txt[6]) + 10 * digit_value(txt[7]) + digit_value(txt[8])
            level == app.logs[i].level
        IN  /\ s \in 200..299 => level = "Info"
            /\ s \in 300..399 => level = "Debug"
            /\ s \in 400..499 => level = "Warn"
            /\ s \in 500..599 => level = "Error"
            /\ s \notin 200..599 => level = "Unknown"

\* The line of status 200, the lowest code of a range, was ingested as Info.
C26_Witness ==
    /\ pc = "poll"
    /\ detected_parser = "Nginx/Apache"
    /\ Len(app.logs) = 1
    /\ SubSeq(app.logs[1].raw.txt, 6, 8) = <<"2", "0", "0">>
    /\ app.logs[1].level = "Info"

\* C27 as stated: when the export or the clipboard copy fails, the handler
\* changes nothing but status_message, which holds the failure text, and
\* input_mode, which is Normal; the session is not made to quit.
C27_OnlyStatusAndMode ==
    (pc = "poll" /\ app.view_mode = "Feed") =>
        /\ (app.input_mode = "SavePrompt" /\ app.input_buffer # <<>>) =>
              handle_events(app, "Enter", FALSE) =
                  [app EXCEPT !.status_message = Some(Status("Save failed", 0)),
                              !.input_mode = "Normal"]
        /\ (app.input_mode = "Normal" /\ app.selected_index < visible_count(app)) =>
              handle_events(app, "y", FALSE) =
                  [app EXCEPT !.status_message = Some(Status("Copy failed", 0)),
                              !.input_mode = "Normal"]

\* C27 amended: when the export or the clipboard copy fails, the handler
\* changes nothing but status_message, which holds the failure text,
\* input_mode, which is Normal, and, for the export, input_buffer, which is
\* emptied; the session is not made to quit.
C27_FailureIsReported ==
    (pc = "poll" /\ app.view_mode = "Feed") =>
        /\ (app.input_mode = "SavePrompt" /\ app.input_buffer # <<>>) =>
              /\ handle_events(app, "Enter", FALSE) =
                    [app EXCEPT !.status_message = Some(Status("Save failed", 0)),
                                !.input_mode = "Normal",
                                !.input_buffer = <<>>]
              /\ ~handle_events(app, "Enter", FALSE).should_quit
        /\ (app.input_mode = "Normal" /\ app.selected_index < visible_count(app)) =>
              /\ handle_events(app, "y", FALSE) =
                    [app EXCEPT !.status_message = Some(Status("Copy failed", 0)),
                                !.input_mode = "Normal"]
              /\ ~handle_events(app, "y", FALSE).should_quit

\* An export has failed and the loop has gone on to its next step.
C27_Witness ==
    /\ pc = "history"
    /\ app.status_message = Some(Status("Save failed", 0))
    /\ app.input_mode = "Normal"
    /\ app.input_buffer = <<>>
    /\ app.logs # <<>>
    /\ ~app.should_quit

(***************************************************************************)
(* Pausing and resuming a live stream, with fairness.  run_tui is one      *)
(* sequential loop in which nothing blocks (event::poll has a timeout,     *)
(* try_recv returns at once), so a step of the loop that can be taken is   *)
(* taken.  Nothing is assumed of the producers, which may stop sending,    *)
(* nor of the user, who may press any key or none.                         *)
(***************************************************************************)
LoopStep ==
    \/ Startup
    \/ HandleKey({" ", "q"})
    \/ PollTimeout
    \/ HistoryLoad
    \/ Ingest
    \/ Tick({0})

NextPause == Produce \/ LoopStep

SpecPause == InitLive /\ [][NextPause]_vars /\ WF_vars(LoopStep)

\* C28: if the user never quits and the stream is unpaused again and again,
\* every line that is in the channel while the loop runs is eventually out
\* of the channel and in the store, as the raw line of an entry or as one
\* of an entry's continuation lines.
C28_PausedLinesArrive ==
    ([](~app.should_quit) /\ []<>(~app.frozen)) =>
        \A id \in 1..MaxLines :
            (pc # "start" /\ \E i \in 1..Len(chan) : chan[i].id = id)
            ~> (/\ \A i \in 1..Len(chan) : chan[i].id # id
                /\ \E i \in 1..Len(app.logs) :
                      \/ app.logs[i].raw.id = id
                      \/ \E j \in 1..Len(app.logs[i].extra_lines) :
                            app.logs[i].extra_lines[j].id = id)

\* Every line of the stream arrived while it was paused, more than one
\* drain takes, and the stream has just been resumed.
C28_Witness ==
    /\ pc = "history"
    /\ ~app.frozen
    /\ ~app.should_quit
    /\ Len(chan) = MaxLines
    /\ Len(chan) > DRAIN_BATCH

(***************************************************************************)
(* prepend_logs alone: batches of any size up to MaxBatch, more than the   *)
(* store holds, are prepended one after another to a store that starts     *)
(* empty.                                                                  *)
(***************************************************************************)
MaxBatch == 3
PrependLines == 5

\* The batches of parsed lines whose ids start at first.
Batches(first) ==
    UNION {{[i \in 1..n |-> fallback_parse([id |-> first + i - 1, txt |-> texts[i]])] :
               texts \in [1..n -> LineTexts]} : n \in 0..MaxBatch}

InitPrepend ==
    /\ app = AppNew
    /\ chan = <<>>
    /\ nextId = 1
    /\ seen_structured = FALSE
    /\ detected_parser = "Plain"
    /\ since_jump = "none"
    /\ producer = None
    /\ frame = None
    /\ pc = "history"

Prepend ==
    /\ \E entries \in Batches(nextId) :
          /\ nextId + Len(entries) - 1 <= PrependLines
          /\ app' = prepend_logs(app, entries)
          /\ nextId' = nextId + Len(entries)
    /\ UNCHANGED <<chan, seen_structured, detected_parser, since_jump, pc, frame, producer>>

SpecPrepend == InitPrepend /\ [][Prepend]_vars

\* C29: prepending a batch to the store leaves the first MAX_LOG_LINES
\* elements of the batch followed by the store, and prepending the empty
\* batch leaves every field, selected_index too, as it was.
C29_PrependContent ==
    \A entries \in Batches(nextId) :
        LET after == prepend_logs(app, entries)
            joined == entries \o app.logs
        IN  /\ after.logs = SubSeq(joined, 1, Min2(Len(joined), MAX_LOG_LINES))
            /\ entries = <<>> => after = app

\* A batch larger than the store has been prepended to a store that held
\* an entry: the store holds the head of the batch and nothing else.
C29_Witness ==
    /\ Len(app.logs) = MAX_LOG_LINES
    /\ app.selected_index > MAX_LOG_LINES
    /\ nextId > app.selected_index + 1
    /\ \A i \in 1..Len(app.logs) : app.logs[i].raw.id = nextId - app.selected_index + i - 1

(***************************************************************************)
(* ui.rs: the window of draw_log_feed, as a function of what it reads: the *)
(* pause flag, the cursor, the length of the visible list and the height   *)
(* of the feed's area.  Each step draws one frame of any such values, a    *)
(* cursor beyond the list among them.                                      *)
(***************************************************************************)
MaxVisible == 5
MaxAreaHeight == 9

\* draw_log_feed without the defensive clamp of the cursor.
draw_log_feed_unclamped(frozen, selected_index, total_visible, area_height) ==
    LET selected == selected_index
        height == SatSub(area_height, 2)
        offset == IF frozen \/ selected < SatSub(total_visible, height)
                  THEN SatSub(selected, height \div 2)
                  ELSE SatSub(total_visible, height)
        window_end == Min2(offset + height + 1, total_visible)
    IN  [frozen |-> frozen, selected_index |-> selected_index,
         total_visible |-> total_visible, height |-> height,
         selected |-> selected, offset |-> offset, window_end |-> window_end]

\* The viewport of a non-empty feed: the clamped cursor and visible[offset..window_end].
draw_log_feed(frozen, selected_index, total_visible, area_height) ==
    LET selected == Min2(selected_index, total_visible - 1)
        height == SatSub(area_height, 2)
        offset == IF frozen \/ selected < SatSub(total_visible, height)
                  THEN SatSub(selected, height \div 2)
                  ELSE SatSub(total_visible, height)
        window_end == Min2(offset + height + 1, total_visible)
    IN  [frozen |-> frozen, selected_index |-> selected_index,
         total_visible |-> total_visible, height |-> height,
         selected |-> selected, offset |-> offset, window_end |-> window_end]

InitRender ==
    /\ app = AppNew
    /\ chan = <<>>
    /\ nextId = 1
    /\ seen_structured = FALSE
    /\ detected_parser = "Plain"
    /\ since_jump = "none"
    /\ producer = None
    /\ frame = None
    /\ pc = "poll"

DrawFeed ==
    /\ \E frozen \in BOOLEAN, selected_index \in 0..(MaxVisible + 1),
          total_visible \in 1..MaxVisible, area_height \in 0..MaxAreaHeight :
          frame' = Some(draw_log_feed(frozen, selected_index, total_visible, area_height))
    /\ UNCHANGED <<app, chan, nextId, seen_structured, detected_parser, since_jump, pc, producer>>

SpecRender == InitRender /\ [][DrawFeed]_vars

\* C30: in every frame of a non-empty feed, of any height, paused or not,
\* with the cursor in the list or beyond it, the window is the one of the
\* claim's formulas and 0 <= offset <= s < window_end <= V: the slice is
\* within the visible list and the selected row is in it.
C30_WindowInBounds ==
    IsSome(frame) =>
        LET f == Unwrap(frame)
            V == f.total_visible
            H == f.height
            s == Min2(f.selected_index, V - 1)
            max0(x) == IF x > 0 THEN x ELSE 0
            offset == IF f.frozen \/ s < V - H THEN max0(s - (H \div 2)) ELSE max0(V - H)
            window_end == Min2(V, offset + H + 1)
        IN  /\ f.selected = s
            /\ f.offset = offset
            /\ f.window_end = window_end
            /\ 0 <= offset
            /\ offset <= s
            /\ s < window_end
            /\ window_end <= V

\* A frame was drawn with the cursor beyond the list, which is longer than
\* the feed is high, so that the window does not start at the first row.
C30_Witness ==
    /\ IsSome(frame)
    /\ Unwrap(frame).selected_index >= Unwrap(frame).total_visible
    /\ Unwrap(frame).height >= 1
    /\ Unwrap(frame).height < Unwrap(frame).total_visible
    /\ Unwrap(frame).offset > 0
    /\ ~Unwrap(frame).frozen

(***************************************************************************)
(* ui.rs: apply_highlights, the spans of one displayed row.  A row is a    *)
(* sequence of characters, a pattern a sequence of characters that matches *)
(* where it occurs; the empty pattern stands for a pattern such as () that *)
(* matches the empty string at every position.  A style is the position of *)
(* its pattern in hl_patterns, 0 the base style.  Offsets count from 0.    *)
(***************************************************************************)
MaxRow == 3
MaxPatterns == 2

RowTexts == UNION {[1..n -> {"a", "b"}] : n \in 1..MaxRow}

RowPatterns == {<<>>, <<"a">>, <<"b">>, <<"a", "a">>, <<"a", "b">>}

slice(text, start, end) == SubSeq(text, start + 1, end)

RECURSIVE find_iter(_, _, _)
\* re.find_iter(text) from offset pos on: leftmost matches, each search
\* starting where the last match ended, one further after an empty match
find_iter(re, text, pos) ==
    LET at == {i \in pos..(Len(text) - Len(re)) : slice(text, i, i + Len(re)) = re}
    IN  IF at = {} THEN <<>>
        ELSE LET start == CHOOSE i \in at : \A j \in at : i <= j
                 end == start + Len(re)
             IN  <<[start |-> start, end |-> end]>>
                 \o find_iter(re, text, IF end = start THEN end + 1 ELSE end)

RECURSIVE collect_ranges(_, _, _)
\* for (re, style) in patterns { for m in re.find_iter(text) { ranges.push(..) } }
collect_ranges(text, patterns, k) ==
    IF k > Len(patterns) THEN <<>>
    ELSE LET found == find_iter(patterns[k], text, 0)
         IN  [i \in 1..Len(found) |->
                 [start |-> found[i].start, end |-> found[i].end, style |-> k]]
             \o collect_ranges(text, patterns, k + 1)

RECURSIVE sort_by_key(_)
\* ranges.sort_by_key(..), a stable sort
sort_by_key(ranges) ==
    IF ranges = <<>> THEN <<>>
    ELSE LET sorted == sort_by_key(Front(ranges))
             r == Last(ranges)
             \* the key (r.0, Reverse(r.1)): by start, the longer first
             key_less(p, q) == p.start < q.start \/ (p.start = q.start /\ p.end > q.end)
             before == {i \in 1..Len(sorted) : ~key_less(r, sorted[i])}
             n == Cardinality(before)
         IN  SubSeq(sorted, 1, n) \o <<r>> \o SubSeq(sorted, n + 1, Len(sorted))

RECURSIVE remove_overlaps_touching(_, _)
\* The filter with r.0 > last.1: a range that starts where the last one ends
\* is discarded too.
remove_overlaps_touching(ranges, filtered) ==
    IF ranges = <<>> THEN filtered
    ELSE IF filtered = <<>> \/ Head(ranges).start > Last(filtered).end
         THEN remove_overlaps_touching(Tail(ranges), Append(filtered, Head(ranges)))
         ELSE remove_overlaps_touching(Tail(ranges), filtered)

RECURSIVE remove_overlaps(_, _)
\* for r in ranges { if filtered.last().is_none_or(|last| r.0 >= last.1) { push } }
remove_overlaps(ranges, filtered) ==
    IF ranges = <<>> THEN filtered
    ELSE IF filtered = <<>> \/ Head(ranges).start >= Last(filtered).end
         THEN remove_overlaps(Tail(ranges), Append(filtered, Head(ranges)))
         ELSE remove_overlaps(Tail(ranges), filtered)

RECURSIVE build_spans(_, _, _)
\* the loop over filtered, then the rest of the text
build_spans(text, filtered, pos) ==
    IF filtered = <<>>
    THEN IF pos < Len(text)
         THEN <<[content |-> slice(text, pos, Len(text)), style |-> 0]>>
         ELSE <<>>
    ELSE LET r == Head(filtered)
             gap == IF pos < r.start
                    THEN <<[content |-> slice(text, pos, r.start), style |-> 0]>>
                    ELSE <<>>
         IN  gap \o <<[content |-> slice(text, r.start, r.end), style |-> r.style]>>
             \o build_spans(text, Tail(filtered), r.end)

apply_highlights(text, patterns) ==
    LET ranges == collect_ranges(text, patterns, 1)
        filtered == remove_overlaps(sort_by_key(ranges), <<>>)
    IN  [text |-> text, patterns |-> patterns,
         ranges |-> ranges, filtered |-> filtered,
         spans |-> IF ranges = <<>> THEN <<[content |-> text, style |-> 0]>>
                   ELSE build_spans(text, filtered, 0)]

\* A row to draw, nothing of it drawn yet: any non-empty text under any one
\* to MaxPatterns patterns.
InitHighlight ==
    /\ app = AppNew
    /\ chan = <<>>
    /\ nextId = 1
    /\ seen_structured = FALSE
    /\ detected_parser = "Plain"
    /\ since_jump = "none"
    /\ producer = None
    /\ \E text \in RowTexts : \E n \in 1..MaxPatterns :
       \E patterns \in [1..n -> RowPatterns] :
          frame = Some([text |-> text, patterns |-> patterns,
                        ranges |-> <<>>, filtered |-> <<>>, spans |-> <<>>])
    /\ pc = "poll"

DrawRow ==
    /\ Unwrap(frame).spans = <<>>
    /\ frame' = Some(apply_highlights(Unwrap(frame).text, Unwrap(frame).patterns))
    /\ UNCHANGED <<app, chan, nextId, seen_structured, detected_parser, since_jump, pc, producer>>

SpecHighlight == InitHighlight /\ [][DrawRow]_vars

NextEps ==
    \/ Produce
    \/ Startup
    \/ PollTimeout
    \/ HistoryLoad
    \/ Ingest
    \/ Tick(0..3)

SpecEps == InitLive /\ [][NextEps]_vars

\* C32: a tick at least a second after the last advance sets current_eps to
\* the counter, drops the oldest sample of the window and appends the
\* counter to it, zeroes the counter and takes the tick's instant as the
\* last advance; an earlier tick changes nothing; and the window always
\* holds EPS_WINDOW_SECS samples.
C32_MeterTick ==
    /\ Len(app.eps_history) = EPS_WINDOW_SECS
    /\ pc = "tick" =>
          \A elapsed \in 0..3 :
              LET now == app.eps_last_tick + elapsed
                  after == tick_eps(app, now)
              IN  IF elapsed >= SECOND
                  THEN /\ after.current_eps = app.eps_counter
                       /\ Len(after.eps_history) = Len(app.eps_history)
                       /\ \A i \in 1..(Len(app.eps_history) - 1) :
                             after.eps_history[i] = app.eps_history[i + 1]
                       /\ Last(after.eps_history) = app.eps_counter
                       /\ after.eps_counter = 0
                       /\ after.eps_last_tick = now
                       /\ after = [app EXCEPT !.current_eps = after.current_eps,
                                              !.eps_history = after.eps_history,
                                              !.eps_counter = 0,
                                              !.eps_last_tick = now]
                  ELSE after = app

\* The meter has advanced on a non-zero sample, and a sample that was not
\* zero has left the window.
C32_Witness ==
    /\ pc = "poll"
    /\ app.total_count > 0
    /\ app.current_eps > 0
    /\ Last(app.eps_history) = app.current_eps
    /\ app.eps_counter = 0
    /\ app.eps_last_tick >= (EPS_WINDOW_SECS + 1) * SECOND
    /\ app.total_count > app.eps_history[1] + app.eps_history[2]

(***************************************************************************)
(* source.rs: the Docker producer (start_docker_source; the SSH variant    *)
(* has the same loop) on a file in the container, so that only the child's *)
(* stdout is piped.  The producer task, the reader task that               *)
(* pipe_child_to_tx spawns for each child, the child processes and run_tui *)
(* run side by side; a step of the producer task is the code between two   *)
(* awaits.  Containers are numbered 1, 2, ... in the order they are found. *)
(* A line carries in src the container it is about.                        *)
(*   producer.at        "spawn" at the head of the loop, "wait" in         *)
(*                      child.wait(), "sleep" in the reconnection loop,    *)
(*                      "ended"                                            *)
(*   producer.open      the containers whose child is running              *)
(*   producer.readers   the containers whose reader task is running        *)
(*   producer.pipe[c]   what the child of c wrote and its reader has not   *)
(*                      read yet                                           *)
(***************************************************************************)
RECONNECT_ATTEMPTS == 2
MaxContainers == 2
DockerLines == 2

Marker(kind, c) == [id |-> 0, txt |-> <<">>>", kind>>, src |-> c]

\* tx.send(..).is_err(): the receiver was dropped
receiver_gone == pc = "returned"

\* the channel after tx.send(line)
sent(line) == IF receiver_gone THEN chan ELSE Append(chan, line)

\* start_docker_source, and the first pass of the producer task up to
\* child.wait(), which it makes before run_tui has drained the channel once:
\* the container was found, the connected line sent and the first child
\* spawned, or not if the spawn failed.
InitDocker ==
    /\ app = AppNew
    /\ chan = <<Marker("connected", 1)>>
    /\ nextId = 1
    /\ seen_structured = FALSE
    /\ detected_parser = "Plain"
    /\ since_jump = "none"
    /\ frame = None
    /\ \E started \in {{}, {1}} :
          producer = Some([at |-> "wait", container |-> 1, attempt |-> 0,
                           open |-> started, readers |-> started,
                           pipe |-> [c \in 1..MaxContainers |-> <<>>]])
    /\ pc = "start"

\* spawn_docker_logs, and in pipe_child_to_tx the spawn of the reader task.
\* When the spawn fails, child.wait() is not reached: the next step goes on
\* from "wait" at once, no child being open.
Spawn ==
    /\ IsSome(producer)
    /\ Unwrap(producer).at = "spawn"
    /\ \E ok \in BOOLEAN :
          LET p == Unwrap(producer)
          IN  producer' = Some(IF ok
                               THEN [p EXCEPT !.at = "wait",
                                              !.open = @ \cup {p.container},
                                              !.readers = @ \cup {p.container}]
                               ELSE [p EXCEPT !.at = "wait"])
    /\ UNCHANGED <<app, chan, nextId, seen_structured, detected_parser, since_jump, frame, pc>>

\* A child writes a line to its stdout.
ChildWrite ==
    /\ IsSome(producer)
    /\ nextId <= DockerLines
    /\ \E c \in Unwrap(producer).open :
          producer' = Some([Unwrap(producer) EXCEPT !.pipe[c] = Append(@, [id |-> nextId, txt |-> <<"out">>, src |-> c])])
    /\ nextId' = nextId + 1
    /\ UNCHANGED <<app, chan, seen_structured, detected_parser, since_jump, frame, pc>>

\* A container stops: its child exits and its end of the pipe is closed.
ChildExit ==
    /\ IsSome(producer)
    /\ \E c \in Unwrap(producer).open :
          producer' = Some([Unwrap(producer) EXCEPT !.open = @ \ {c}])
    /\ UNCHANGED <<app, chan, nextId, seen_structured, detected_parser, since_jump, frame, pc>>

\* One pass of a reader task's loop: next_line, then tx_out.send.
ReaderStep ==
    /\ IsSome(producer)
    /\ \E c \in Unwrap(producer).readers :
          LET p == Unwrap(producer)
          IN  IF p.pipe[c] # <<>>
              THEN /\ chan' = sent(Head(p.pipe[c]))
                   /\ producer' = Some(IF receiver_gone
                                       THEN [p EXCEPT !.readers = @ \ {c},
                                                      !.pipe[c] = Tail(@)]
                                       ELSE [p EXCEPT !.pipe[c] = Tail(@)])
              ELSE /\ c \notin p.open
                   /\ chan' = chan
                   /\ producer' = Some([p EXCEPT !.readers = @ \ {c}])
    /\ UNCHANGED <<app, nextId, seen_structured, detected_parser, since_jump, frame, pc>>

\* child.wait() returns and the task sends the reconnecting line.
WaitReturns ==
    /\ IsSome(producer)
    /\ Unwrap(producer).at = "wait"
    /\ Unwrap(producer).container \notin Unwrap(producer).open
    /\ chan' = sent(Marker("stopped", Unwrap(producer).container))
    /\ producer' = Some([Unwrap(producer) EXCEPT
                            !.at = IF receiver_gone THEN "ended" ELSE "sleep",
                            !.attempt = 0])
    /\ UNCHANGED <<app, nextId, seen_structured, detected_parser, since_jump, frame, pc>>

\* A reconnection loop of one attempt: it ends after the first lookup that
\* finds no container, and after any later lookup.
lookup_once(p, found) ==
    IF found /\ p.attempt = 0
    THEN [p EXCEPT !.at = "spawn", !.container = @ + 1, !.attempt = 0]
    ELSE [p EXCEPT !.at = "ended", !.attempt = @ + 1]

\* One pass of the reconnection loop, and what follows it when it was the
\* last: the producer after sleep and find_container_by_prefix.
lookup(p, found) ==
    IF found
    THEN [p EXCEPT !.at = "spawn", !.container = @ + 1, !.attempt = 0]
    ELSE IF p.attempt + 1 < RECONNECT_ATTEMPTS
         THEN [p EXCEPT !.attempt = @ + 1]
         ELSE [p EXCEPT !.at = "ended", !.attempt = @ + 1]

\* sleep(2 s), then the lookup.  Two seconds are enough for the reader of a
\* child that has exited to read what is left in its pipe.
Lookup ==
    /\ IsSome(producer)
    /\ Unwrap(producer).at = "sleep"
    /\ Unwrap(producer).readers \subseteq Unwrap(producer).open
    /\ \E found \in BOOLEAN :
          /\ found => Unwrap(producer).container < MaxContainers
          /\ producer' = Some(lookup(Unwrap(producer), found))
    /\ chan' = IF Unwrap(producer').at = "spawn"
               THEN sent(Marker("reconnected", Unwrap(producer').container))
               ELSE IF Unwrap(producer').at = "ended"
                    THEN sent(Marker("gave up", Unwrap(producer).container))
                    ELSE chan
    /\ UNCHANGED <<app, nextId, seen_structured, detected_parser, since_jump, frame, pc>>

\* run_tui returns after its loop: the receiver is dropped, and with it what
\* is left in the channel.
Return ==
    /\ pc = "done"
    /\ pc' = "returned"
    /\ chan' = <<>>
    /\ UNCHANGED <<app, nextId, seen_structured, detected_parser, since_jump, frame, producer>>

NextDocker ==
    \/ Spawn
    \/ ChildWrite
    \/ ChildExit
    \/ ReaderStep
    \/ WaitReturns
    \/ Lookup
    \/ Startup
    \/ HandleKey({"q"})
    \/ PollTimeout
    \/ HistoryLoad
    \/ Ingest
    \/ Tick({0})
    \/ Return

SpecDocker == InitDocker /\ [][NextDocker]_vars

C34_NoWorkAfterDrop ==
    [][pc = "returned" =>
          LET p == Unwrap(producer)
              q == Unwrap(producer')
          IN  /\ q.open \subseteq p.open
              /\ ~(p.at = "spawn" /\ q.at = "wait")
              /\ ~(p.at = "sleep" /\ <<q.at, q.attempt>> # <<p.at, p.attempt>>)]_vars

\* C35: whoever reads the channel never finds an output line of a container
\* after the reconnecting line that was sent when that container stopped.
C35_OutputBeforeMarker ==
    LET seen == [i \in 1..Len(app.logs) |-> app.logs[i].raw] \o chan
    IN  \A i, j \in 1..Len(seen) :
            (i < j /\ seen[i].txt = <<">>>", "stopped">>) =>
                ~(seen[j].txt = <<"out">> /\ seen[j].src = seen[i].src)

(***************************************************************************)
(* Sessions on a stream of Laravel and plain lines, started without        *)
(* --format: the producer task has sent any number of lines, none too,     *)
(* when run_tui drains the channel for the first time, and sends the rest  *)
(* later.  Every line is parsed with the parser detected at startup.       *)
(***************************************************************************)
TimingLines == 3

\* The drain of one iteration, with the detected parser.
IngestParsed ==
    /\ pc = "ingest"
    /\ LET n == drain_count(app, Len(chan))
           entries == [i \in 1..n |-> parse(detected_parser, chan[i])]
       IN  /\ app' = add_entries(app, entries)
           /\ seen_structured' = (seen_structured
                                  \/ \E i \in 1..n : entries[i].level # "Unknown")
           /\ chan' = SubSeq(chan, n + 1, Len(chan))
    /\ pc' = "tick"
    /\ UNCHANGED <<nextId, detected_parser, since_jump, frame, producer>>

NextTiming ==
    \/ ProduceFrom({<<"1", "ERROR", "x">>, <<"x">>}, TimingLines)
    \/ StartupDetect
    \/ PollTimeout
    \/ HistoryLoad
    \/ IngestParsed
    \/ Tick({0})

SpecTiming == InitLive /\ [][NextTiming]_vars

\* C36: once run_tui has chosen its parser, the parser is the one that
\* detection gives on the first SAMPLE_SIZE lines of the stream (checked
\* where the stream has sent that many and they are all still in the channel
\* or the store), however many of them were in the channel at startup; and
\* the parser does not change afterwards.
C36_ParserFromStream ==
    [][pc # "start" =>
          /\ detected_parser' = detected_parser
          /\ LET held == {chan[i] : i \in 1..Len(chan)}
                         \cup {app.logs[i].raw : i \in 1..Len(app.logs)}
                         \cup UNION {{app.logs[i].extra_lines[j] :
                                         j \in 1..Len(app.logs[i].extra_lines)} :
                                     i \in 1..Len(app.logs)}
                 first == [i \in 1..SAMPLE_SIZE |->
                              IF \E l \in held : l.id = i
                              THEN CHOOSE l \in held : l.id = i
                              ELSE [id |-> 0, txt |-> <<>>]]
             IN  (\A i \in 1..SAMPLE_SIZE : first[i].id = i) =>
                     detected_parser = detect_parser(first)]_vars

\* C37: once a line of a level other than Unknown has been passed to
\* add_log, no entry of level Unknown in the store comes right after an
\* entry of another level.
C37_GroupedShape ==
    seen_structured =>
        \A i \in 1..(Len(app.logs) - 1) :
            app.logs[i + 1].level = "Unknown" => app.logs[i].level = "Unknown"

(***************************************************************************)
(* Sessions in which the detail view is opened on a live stream: error-only*)
(* filtering, cursor motion and Enter.                                     *)
(***************************************************************************)
NextOpen ==
    \/ Produce
    \/ Startup
    \/ HandleKey({"e", "Down", "Enter"})
    \/ PollTimeout
    \/ HistoryLoad
    \/ Ingest
    \/ Tick({0})

SpecOpen == InitLive /\ [][NextOpen]_vars

\* C38: while the detail view is open the cursor is on an entry of the
\* visible list.
C38_DetailHasEntry ==
    app.view_mode = "Detail" => app.selected_index < visible_count(app)

(***************************************************************************)
(* read_tail: the last n lines of a file, read backwards from its end in   *)
(* chunks of TAIL_CHUNK bytes.  A file is the sequence of its bytes; NL is *)
(* the newline byte.                                                       *)
(***************************************************************************)
TAIL_CHUNK == 2
MaxFile == 5
MaxTail == 3

NL == "\n"
Files == UNION {[1..l -> {"a", NL}] : l \in 0..MaxFile}

\* str::lines: the pieces between newlines; what follows the last newline
\* is a line only if it is not empty.
RECURSIVE str_lines(_, _)
str_lines(buf, cur) ==
    IF buf = <<>> THEN (IF cur = <<>> THEN <<>> ELSE <<cur>>)
    ELSE IF Head(buf) = NL THEN <<cur>> \o str_lines(Tail(buf), <<>>)
    ELSE str_lines(Tail(buf), Append(cur, Head(buf)))

\* lines.into_iter().skip(lines.len().saturating_sub(n))
skip_to_last(ls, n) ==
    SubSeq(ls, (IF Len(ls) > n THEN Len(ls) - n ELSE 0) + 1, Len(ls))

\* The loop of read_tail over a large file: the chunk that ends at pos, its
\* first line removed unless the chunk starts the file, put before what was
\* collected.
RECURSIVE read_chunks(_, _, _, _)
read_chunks(file, n, collected, pos) ==
    LET read_start  == IF pos > TAIL_CHUNK THEN pos - TAIL_CHUNK ELSE 0
        chunk       == SubSeq(file, read_start + 1, pos)
        chunk_lines == str_lines(chunk, <<>>)
        kept        == IF read_start > 0 /\ chunk_lines # <<>>
                       THEN Tail(chunk_lines) ELSE chunk_lines
        all         == kept \o collected
    IN  IF Len(all) >= n \/ read_start = 0 THEN all
        ELSE read_chunks(file, n, all, read_start)

read_tail(file, n) ==
    IF Len(file) = 0 THEN <<>>
    ELSE IF Len(file) <= TAIL_CHUNK THEN skip_to_last(str_lines(file, <<>>), n)
    ELSE skip_to_last(read_chunks(file, n, <<>>, Len(file)), n)

\* A file about to be opened, nothing of it read yet: any content up to
\* MaxFile bytes, any number of lines asked for.
InitTail ==
    /\ app = AppNew
    /\ chan = <<>>
    /\ nextId = 1
    /\ seen_structured = FALSE
    /\ detected_parser = "Plain"
    /\ since_jump = "none"
    /\ producer = None
    /\ \E file \in Files : \E n \in 0..MaxTail :
          frame = Some([file |-> file, n |-> n, read |-> FALSE, tail |-> <<>>])
    /\ pc = "start"

ReadTail ==
    /\ ~Unwrap(frame).read
    /\ frame' = Some([Unwrap(frame) EXCEPT
                         !.read = TRUE,
                         !.tail = read_tail(Unwrap(frame).file, Unwrap(frame).n)])
    /\ UNCHANGED <<app, chan, nextId, seen_structured, detected_parser, since_jump, pc, producer>>

SpecTail == InitTail /\ [][ReadTail]_vars

\* C39: what read_tail returns is the last min(n, L) lines of the file, in
\* file order and each one whole, L being the number of lines of the file.
C39_TailIsLastLines ==
    Unwrap(frame).read =>
        Unwrap(frame).tail =
            skip_to_last(str_lines(Unwrap(frame).file, <<>>), Unwrap(frame).n)


\* C40: where the loop loads history, prepending a batch leaves total_count,
\* error_count, the counter of the rate meter, has_structured_logs, frozen,
\* the filter and search state and horizontal_scroll as they were, whatever
\* the levels of the batch.
C40_PrependNotCounted ==
    pc = "history" =>
        \* the batches a load can give: the parsed lines of any stretch of the
        \* history file of at most HISTORY_CHUNK lines
        \A first \in 1..Len(HistoryFile), n \in 0..HISTORY_CHUNK :
            first + n - 1 <= Len(HistoryFile) =>
                LET entries == parse_all(SubSeq(HistoryFile, first, first + n - 1))
                    after == prepend_logs(app, entries)
                IN  /\ after.total_count = app.total_count
                    /\ after.error_count = app.error_count
                    /\ after.eps_counter = app.eps_counter
                    /\ after.current_eps = app.current_eps
                    /\ after.has_structured_logs = app.has_structured_logs
                    /\ after.frozen = app.frozen
                    /\ after.error_only = app.error_only
                    /\ after.filter_text = app.filter_text
                    /\ after.filter_regex = app.filter_regex
                    /\ after.search_text = app.search_text
                    /\ after.search_regex = app.search_regex
                    /\ after.horizontal_scroll = app.horizontal_scroll

\* The ERROR line of the history file has been prepended to a store of
\* ingested lines, and no error has been counted.
C40_Witness ==
    /\ \E i \in 1..Len(app.logs) :
          app.logs[i].raw.id = 0 /\ app.logs[i].level = "Error"
    /\ app.error_count = 0
    /\ app.total_count > 0

====
